---- MODULE Spec2Model ----
(***************************************************************************)
(* Model of the confidence-gated breadth-first decision engine of          *)
(* bfs_v2.py (BFSTraverser) together with the helpers it relies on         *)
(* (build_tree, collect_all_files, top_level_folder, build_dest_rel).      *)
(*                                                                         *)
(* Representation.  A relative path "a/b/c" is the sequence of its         *)
(* segments <<"a","b","c">>; the root path "." is <<".">>.  A folder node  *)
(* is identified by the chain of names leading to it from the root (the    *)
(* root is <<>>); its `path` field is stored as the code computes it.      *)
(* A confidence is an integer number of hundredths (0.75 is 75).  Python's *)
(* None is the empty sequence wherever a path or a list is expected.       *)
(***************************************************************************)
EXTENDS Integers, Sequences, FiniteSets, TLC

\* ------------------------------------------------------------------ bounds

\* Largest number of files in the scanned input.
MaxFiles == 2

\* ------------------------------------------------------- program constants

\* classify_v2.py: DEFAULT_CONFIDENCE_THRESHOLD = 0.75, in hundredths.
DEFAULT_CONFIDENCE_THRESHOLD == 75

\* bfs_v2.py: MAX_ANCESTOR_DEPTH = 10
MAX_ANCESTOR_DEPTH == 10

\* classify_v2.py: class Category
Category == {"study", "practice", "support", "skip"}

SKIP == "skip"

RootPath == <<".">>

None == <<>>

\* ------------------------------------------------------------ the inputs

\* The files a scan can find, in the order scan_directory lists them
\* (os.walk is top-down: a directory's own files, then its subdirectories).
PathUniverse ==
    << <<"r.txt">>,
       <<"hw", "a.py">>,
       <<"hw", "sub", "b.py">>,
       <<"lecture", "c.pdf">> >>

RECURSIVE SubSeqs(_)
\* Every subsequence of s (order kept): the results of scanning a directory
\* that holds some of the files of PathUniverse.
SubSeqs(s) ==
    IF s = <<>> THEN { <<>> }
    ELSE LET rest == SubSeqs(Tail(s))
         IN  rest \cup { <<Head(s)>> \o t : t \in rest }

ScanResults == { s \in SubSeqs(PathUniverse) : Len(s) <= MaxFiles }

\* The file names that have a row in the database: some scanned files have
\* one, some have none, and one row is stale (no such file on disk).
DbNames == { "r.txt", "a.py", "old.txt" }

\* Confidence values the oracle may return for a folder: just below the
\* threshold and exactly at it.
FolderConfidences ==
    { DEFAULT_CONFIDENCE_THRESHOLD - 1, DEFAULT_CONFIDENCE_THRESHOLD }

FileConfidences == { DEFAULT_CONFIDENCE_THRESHOLD + 15 }

\* The one-sentence summary the oracle may give for a folder; "" is <<>>.
DescOf(path) == <<"about">> \o path

\* --------------------------------------------------------------- helpers

Range(s) == { s[i] : i \in DOMAIN s }

Put(f, k, v) == (k :> v) @@ f

Front(s) == SubSeq(s, 1, Len(s) - 1)

Last(s) == s[Len(s)]

\* os.path.dirname(rel_path) or "."
DirName(rel_path) == IF Len(rel_path) > 1 THEN Front(rel_path) ELSE RootPath

\* os.path.basename(rel_path)
BaseName(rel_path) == Last(rel_path)

\* ------------------------------------------------------------ build_tree

\* FolderNode(path=..., name=...): children is the list of child names in
\* insertion order (a dict keeps it), files the list of FileMeta.
FolderNode(path, name) ==
    [path |-> path, name |-> name, children |-> <<>>, files |-> <<>>]

FileMeta(rel_path, folder, fname, desc) ==
    [source_path |-> rel_path, folder_path |-> folder,
     file_name |-> fname, description |-> desc]

RECURSIVE MakeFolders_rooted(_, _, _)
\* A walk that builds every path from the root's path ".".
MakeFolders_rooted(tree, agg, parts) ==
    IF parts = <<>> THEN tree
    ELSE LET p     == Head(parts)
             chain == Append(agg, p)
             t1    == IF chain \in DOMAIN tree THEN tree
                      ELSE Put([tree EXCEPT ![agg].children = Append(@, p)],
                               chain, FolderNode(RootPath \o chain, p))
         IN  MakeFolders_rooted(t1, chain, Tail(parts))

RECURSIVE MakeFolders(_, _, _)
\* The loop `for p in parts` of build_tree: walks down from the node with
\* chain `agg`, creating each missing child with path "/".join(agg).
MakeFolders(tree, agg, parts) ==
    IF parts = <<>> THEN tree
    ELSE LET p     == Head(parts)
             chain == Append(agg, p)
             t1    == IF chain \in DOMAIN tree THEN tree
                      ELSE Put([tree EXCEPT ![agg].children = Append(@, p)],
                               chain, FolderNode(chain, p))
         IN  MakeFolders(t1, chain, Tail(parts))

\* An insertion that creates the folders but hangs every file on the root.
AddFile_attaches_to_root(tree, rel_path, index) ==
    LET folder == DirName(rel_path)
        fname  == BaseName(rel_path)
        parts  == IF folder # RootPath THEN folder ELSE <<>>
        t1     == MakeFolders(tree, <<>>, parts)
        desc   == IF fname \in index THEN <<fname>> ELSE None
    IN  [t1 EXCEPT ![<<>>].files =
             Append(@, FileMeta(rel_path, folder, fname, desc))]

\* One iteration of `for rel_path in files_on_disk`.
AddFile(tree, rel_path, index) ==
    LET folder == DirName(rel_path)
        fname  == BaseName(rel_path)
        parts  == IF folder # RootPath THEN folder ELSE <<>>
        t1     == MakeFolders(tree, <<>>, parts)
        desc   == IF fname \in index THEN <<fname>> ELSE None
    IN  [t1 EXCEPT ![parts].files =
             Append(@, FileMeta(rel_path, folder, fname, desc))]

RECURSIVE BuildFrom(_, _, _)
BuildFrom(tree, files, index) ==
    IF files = <<>> THEN tree
    ELSE BuildFrom(AddFile(tree, Head(files), index), Tail(files), index)

\* build_tree(_root_dir, files_on_disk, file_index): the root is chain <<>>.
build_tree(files, index) ==
    BuildFrom(<<>> :> FolderNode(RootPath, "root"), files, index)

\* The child nodes of a node, in dict order.
ChildChains(tree, k) ==
    [i \in 1..Len(tree[k].children) |-> Append(k, tree[k].children[i])]

RECURSIVE CollectQueue(_, _)
\* The while loop of collect_all_files over its queue of nodes.
CollectQueue(tree, queue) ==
    IF queue = <<>> THEN <<>>
    ELSE LET cur == Head(queue)
         IN  tree[cur].files
               \o CollectQueue(tree, Tail(queue) \o ChildChains(tree, cur))

\* A collection that stops at the folder's immediate files.
collect_immediate_files(tree, k) == tree[k].files

\* collect_all_files(node): the files of the subtree, breadth-first.
collect_all_files(tree, k) == CollectQueue(tree, <<k>>)

\* ---------------------------------------------------- destination paths

\* A top-folder rule that takes the first segment of every path.
top_level_folder_first_segment(source_path) == <<source_path[1]>>

\* top_level_folder(source_path): parts[0] if len(parts) > 1 else "".
top_level_folder(source_path) ==
    IF Len(source_path) > 1 THEN <<source_path[1]>> ELSE <<>>

\* tail = source_path; if top: tail = source_path[len(top):].lstrip("/")
TailOf(source_path) ==
    IF top_level_folder(source_path) # <<>> THEN Tail(source_path)
    ELSE source_path

\* A text is a sequence of marks: "/", "\\", " " (any whitespace) or a run
\* of other characters such as "hw".  "" is <<>>.
RECURSIVE lstrip(_)
lstrip(text) ==
    IF text # <<>> /\ Head(text) = " " THEN lstrip(Tail(text)) ELSE text

Reverse(text) == [i \in DOMAIN text |-> text[Len(text) + 1 - i]]

\* str.strip()
strip(text) == Reverse(lstrip(Reverse(lstrip(text))))

\* str.replace("\\", "/")
replace_backslash(text) ==
    [i \in DOMAIN text |-> IF text[i] = "\\" THEN "/" ELSE text[i]]

RECURSIVE SlashJoin(_)
\* "/".join(parts)
SlashJoin(parts) ==
    IF parts = <<>> THEN <<>>
    ELSE IF Len(parts) = 1 THEN Head(parts)
    ELSE Head(parts) \o <<"/">> \o SlashJoin(Tail(parts))

\* The text of a path given by its segments.
PathText(path) == SlashJoin([i \in DOMAIN path |-> <<path[i]>>])

RECURSIVE CleanParts(_)
\* [p.strip().replace("\\", "/") for p in parts if p and p.strip()]
CleanParts(parts) ==
    IF parts = <<>> THEN <<>>
    ELSE (IF Head(parts) # <<>> /\ strip(Head(parts)) # <<>>
          THEN << replace_backslash(strip(Head(parts))) >>
          ELSE <<>>)
         \o CleanParts(Tail(parts))

\* _join_rel(*parts)
_join_rel(parts) == SlashJoin(CleanParts(parts))

\* A destination rule without the special case of a top folder "lecture".
build_dest_rel_no_lecture_case(category, top_folder, tail) ==
    IF category = "practice" THEN _join_rel(<< <<"practice">>, top_folder, tail >>)
    ELSE IF category = "support" THEN _join_rel(<< <<"support">>, top_folder, tail >>)
    ELSE IF category = "study" THEN
        _join_rel(<< <<"study">>, <<"lecture">>, top_folder, tail >>)
    ELSE _join_rel(<< top_folder, tail >>)

\* build_dest_rel(category, top_folder, tail), on texts.
build_dest_rel(category, top_folder, tail) ==
    IF category = "practice" THEN _join_rel(<< <<"practice">>, top_folder, tail >>)
    ELSE IF category = "support" THEN _join_rel(<< <<"support">>, top_folder, tail >>)
    ELSE IF category = "study" THEN
        IF top_folder = <<"lecture">>
        THEN _join_rel(<< <<"study">>, <<"lecture">>, tail >>)
        ELSE _join_rel(<< <<"study">>, <<"lecture">>, top_folder, tail >>)
    ELSE _join_rel(<< top_folder, tail >>)

\* A mapping record that stores the tail in place of the source path.
FileMapping_keeps_tail(source_path, category, reason) ==
    [source_rel |-> TailOf(source_path),
     dest_rel   |-> build_dest_rel(category,
                                   PathText(top_level_folder(source_path)),
                                   PathText(TailOf(source_path))),
     top_folder |-> top_level_folder(source_path),
     category   |-> category,
     reason     |-> reason]

\* FileMapping(source_rel, dest_rel, top_folder, category, reason) as both
\* _process_folder and _process_file build it.
FileMapping(source_path, category, reason) ==
    [source_rel |-> source_path,
     dest_rel   |-> build_dest_rel(category,
                                   PathText(top_level_folder(source_path)),
                                   PathText(TailOf(source_path))),
     top_folder |-> top_level_folder(source_path),
     category   |-> category,
     reason     |-> reason]

\* ------------------------------------------------------- decision policy

\* ClassificationResult(category, confidence, reason, is_mixed, folder_description)
ClassificationResult(category, confidence, reason, is_mixed, desc) ==
    [category |-> category, confidence |-> confidence, reason |-> reason,
     is_mixed |-> is_mixed, folder_description |-> desc]

\* ClassificationResult.is_confident(threshold)
is_confident(result, threshold) ==
    result.confidence >= threshold /\ ~result.is_mixed

\* A prune guard that leaves out the threshold itself.
ConfidentSkip_strict(result, threshold) ==
    result.category = SKIP /\ result.confidence > threshold

\* The prune guard of the earlier generation: any Skip decision prunes.
ConfidentSkip_any_skip(result, threshold) ==
    result.category = SKIP

\* The guard of "FIX #1: Confident skip -> prune subtree".
ConfidentSkip(result, threshold) ==
    result.category = SKIP /\ result.confidence >= threshold

\* A descent test that forgets the confidence.
should_descend_ignores_confidence(result, threshold) ==
    \/ result.is_mixed
    \/ result.category = SKIP

\* A descent test that looks at the category alone.
should_descend_only_on_skip(result, threshold) ==
    result.category = SKIP

\* should_descend after lines 598-605 (evaluated when ConfidentSkip is false).
should_descend(result, threshold) ==
    \/ ~is_confident(result, threshold)
    \/ result.is_mixed
    \/ result.category = SKIP

\* A context list that puts the newest description first.
child_ancestors_prepends(my_ancestors, result) ==
    IF result.folder_description # <<>> /\ Len(my_ancestors) < MAX_ANCESTOR_DEPTH
    THEN << result.folder_description >> \o my_ancestors
    ELSE my_ancestors

\* A context list without the cap.
child_ancestors_uncapped(my_ancestors, result) ==
    IF result.folder_description # <<>>
    THEN Append(my_ancestors, result.folder_description)
    ELSE my_ancestors

\* child_ancestors: a copy of my_ancestors, grown by the description when
\* it is non-empty and the cap is not reached.
child_ancestors(my_ancestors, result) ==
    IF result.folder_description # <<>> /\ Len(my_ancestors) < MAX_ANCESTOR_DEPTH
    THEN Append(my_ancestors, result.folder_description)
    ELSE my_ancestors

\* Classification(path, category, confidence, reason, classified_at_level,
\*                parent_folder, ancestor_descriptions)
Classification(path, category, confidence, reason, level, parent, ancestors) ==
    [path |-> path, category |-> category, confidence |-> confidence,
     reason |-> reason, classified_at_level |-> level,
     parent_folder |-> parent, ancestor_descriptions |-> ancestors]

\* dict.get(key, [])
GetOr(map, key, default) == IF key \in DOMAIN map THEN map[key] ELSE default

\* ------------------------------------------------------------- the oracle

\* What classify_folder may return for a folder: every category, a
\* confidence on either side of the threshold, mixed or not, with or
\* without a folder description.  For the folders of the long chain
\* (first segment "deep") only the description varies: the reply is Study
\* below the threshold, so that the chain is descended to its end.
FolderReplies(path) ==
    IF path[1] = "deep"
    THEN { ClassificationResult("study", DEFAULT_CONFIDENCE_THRESHOLD - 1,
                                <<"why">>, FALSE, d) :
             d \in { <<>>, DescOf(path) } }
    ELSE { ClassificationResult(c, conf, <<"why">>, m, d) :
             c \in Category, conf \in FolderConfidences, m \in BOOLEAN,
             d \in { <<>>, DescOf(path) } }

\* What classify_file may return: is_mixed=False, no folder description.
FileReplies ==
    { ClassificationResult(c, conf, <<"why">>, FALSE, <<>>) :
        c \in Category, conf \in FileConfidences }

\* ------------------------------------------------------------------ state

VARIABLES
    files_on_disk,      \* scan_directory's result
    file_index,         \* the file names that have a row in the database
    root,               \* the tree build_tree returned
    pc,                 \* "start", "loop", "done", "aborted"; "idle": no run
    task_queue,         \* the deque of _bfs_classify
    seen,
    ancestor_desc_map,
    classifications,
    folder_decisions,
    skipped_folders,
    mappings,
    debug_log,          \* LLMClassifier.debug_log: one entry per oracle call
    db_updates,         \* the calls of update_folder_description_bulk
    result,             \* the TraversalResult's two counters, None before
    mapping_writes,     \* the keys of the `mappings[...] = ...` writes, in order
    probe               \* a pure function's arguments and, once applied, value

vars == << files_on_disk, file_index, root, pc, task_queue, seen,
           ancestor_desc_map, classifications, folder_decisions,
           skipped_folders, mappings, debug_log, db_updates, result,
           mapping_writes, probe >>

\* The locals of _bfs_classify that hold the plan.
plan == << classifications, folder_decisions, skipped_folders, mappings >>

FolderItem(chain) == [kind |-> "folder", node |-> chain]

FileItem(meta) == [kind |-> "file", meta |-> meta]

\* item_key = item.source_path if isinstance(item, FileMeta) else item.path
item_key(item) ==
    IF item.kind = "file" THEN item.meta.source_path ELSE root[item.node].path

\* A loop without the visited test.
already_seen_never(key, visited) == FALSE

\* Lines 514-516: `if item_key in seen: continue`.
already_seen(key, visited) == key \in visited

\* LLMClassifier._log_call: what the engine supplied to the call (the prompt
\* is built from it) and either the parsed reply or the error.
LogEntry(call_type, path, ancestors, siblings, parsed, error) ==
    [call_type |-> call_type, path |-> path, ancestor_descriptions |-> ancestors,
     sibling_names |-> siblings, parsed |-> parsed, error |-> error]

\* A lookup that returns an identifier for every name, row or no row.
get_uuids_for_files_unfiltered(index, file_names) ==
    [i \in DOMAIN file_names |-> <<"uuid", file_names[i]>>]

\* CourseDB.get_uuids_for_files(file_names): one uuid per name that has a row.
RECURSIVE get_uuids_for_files(_, _)
get_uuids_for_files(index, file_names) ==
    IF file_names = <<>> THEN <<>>
    ELSE (IF Head(file_names) \in index THEN << <<"uuid", Head(file_names)>> >>
          ELSE <<>>)
         \o get_uuids_for_files(index, Tail(file_names))

FileNames(files) == [i \in DOMAIN files |-> files[i].file_name]

\* --------------------------------------------------------- initial state

Init ==
    /\ files_on_disk \in ScanResults
    /\ file_index = DbNames
    /\ root = <<>>
    /\ pc = "start"
    /\ task_queue = <<>>
    /\ seen = {}
    /\ ancestor_desc_map = <<>>
    /\ classifications = <<>>
    /\ folder_decisions = <<>>
    /\ skipped_folders = <<>>
    /\ mappings = <<>>
    /\ debug_log = <<>>
    /\ db_updates = <<>>
    /\ result = None
    /\ mapping_writes = <<>>
    /\ probe = None

\* ---------------------------------------------------------------- actions

\* A seeding that puts the root folder itself on the queue.
Seed_enqueues_root ==
    /\ pc = "start"
    /\ root' = build_tree(files_on_disk, file_index)
    /\ task_queue' = << FolderItem(<<>>) >>
    /\ ancestor_desc_map' = (RootPath :> <<>>)
    /\ pc' = "loop"
    /\ UNCHANGED << files_on_disk, file_index, seen, classifications,
                    folder_decisions, skipped_folders, mappings, debug_log,
                    db_updates, result, mapping_writes, probe >>

\* traverse() up to the while loop of _bfs_classify: build the tree, seed
\* the queue with the root's child folders, then the root's files.
Seed ==
    /\ pc = "start"
    /\ LET tree   == build_tree(files_on_disk, file_index)
           kids   == ChildChains(tree, <<>>)
       IN  /\ root' = tree
           /\ task_queue' = [i \in DOMAIN kids |-> FolderItem(kids[i])]
                  \o [i \in DOMAIN tree[<<>>].files |-> FileItem(tree[<<>>].files[i])]
           /\ ancestor_desc_map' =
                  [p \in { tree[kids[i]].path : i \in DOMAIN kids } |-> <<>>]
    /\ pc' = "loop"
    /\ UNCHANGED << files_on_disk, file_index, seen, classifications,
                    folder_decisions, skipped_folders, mappings, debug_log,
                    db_updates, result, mapping_writes, probe >>

\* BFSTraverser.confidence_threshold (the constructor's default).
confidence_threshold == DEFAULT_CONFIDENCE_THRESHOLD

\* A folder record that carries the mark whatever the branch.
FolderRecord_always_marked(path, reply, descended, my_ancestors) ==
    [path |-> path, category |-> reply.category, confidence |-> reply.confidence,
     reason |-> reply.reason \o <<" [descended]">>,
     classified_at_level |-> "folder", parent_folder |-> <<>>,
     ancestor_descriptions |-> my_ancestors]

\* The Classification _process_folder records for the folder itself.
FolderRecord(path, reply, descended, my_ancestors) ==
    Classification(path, reply.category, reply.confidence,
                   reply.reason \o (IF descended THEN <<" [descended]">> ELSE <<>>),
                   "folder", None, my_ancestors)

\* The Classification a file inherits in the confident-assignment loop.
InheritedRecord(f, folder_path, reply, ancestors) ==
    Classification(f.source_path, reply.category, reply.confidence,
                   <<"Inherited from folder">> \o folder_path \o reply.reason,
                   "folder", folder_path, ancestors)

\* An assignment branch that leaves the files' records for later.
AssignClassifications_deferred(cls, files, folder_path, reply, ancestors) == cls

RECURSIVE AssignClassifications(_, _, _, _, _)
\* `for f in folder_files: classifications[f.source_path] = ...`
AssignClassifications(cls, files, folder_path, reply, ancestors) ==
    IF files = <<>> THEN cls
    ELSE AssignClassifications(
             Put(cls, Head(files).source_path,
                 InheritedRecord(Head(files), folder_path, reply, ancestors)),
             Tail(files), folder_path, reply, ancestors)

\* An assignment loop that starts at the second file.
AssignMappings_skips_first(maps, files, reply) ==
    IF files = <<>> THEN maps
    ELSE [p \in DOMAIN maps \cup { files[i].source_path : i \in 2..Len(files) } |->
            IF p \in DOMAIN maps THEN maps[p]
            ELSE FileMapping(p, reply.category, reply.reason)]

RECURSIVE AssignMappings(_, _, _)
\* `for f in folder_files: mappings[f.source_path] = FileMapping(...)`
AssignMappings(maps, files, reply) ==
    IF files = <<>> THEN maps
    ELSE AssignMappings(
             Put(maps, Head(files).source_path,
                 FileMapping(Head(files).source_path, reply.category, reply.reason)),
             Tail(files), reply)

\* The keys the assignment loop writes to `mappings`, in the loop's order.
AssignWrites(writes, files) ==
    writes \o [i \in DOMAIN files |-> files[i].source_path]

\* A work list used as a stack: new items go to the front.
append_all_at_front(queue, items) == items \o queue

\* task_queue.append for each item in turn (lines 619, 623): new items go to
\* the back of the deque, popleft (line 512) takes from the front.
append_all(queue, items) == queue \o items

\* A list that only notes the folders pruned by a confident Skip.
SkippedAfter_confident_only(skipped, path, reply) ==
    IF reply.category = SKIP /\ reply.confidence >= DEFAULT_CONFIDENCE_THRESHOLD
    THEN Append(skipped, path)
    ELSE skipped

\* skipped_folders after _process_folder: item.path is appended in the
\* confident-skip branch (line 585) and, past it, when the category is Skip
\* (lines 603-604).
SkippedAfter(skipped, path, reply) ==
    IF reply.category = SKIP THEN Append(skipped, path) ELSE skipped

\* An assignment branch that also schedules the folder's immediate files.
AssignItems_enqueues_files(tree, node) ==
    [i \in DOMAIN tree[node].files |-> FileItem(tree[node].files[i])]

\* The items the confident-assignment branch appends (lines 625-658): none.
AssignItems(tree, node) == <<>>

\* A descend branch that forgets the child folders.
DescendItems_files_only(tree, node) ==
    [i \in DOMAIN tree[node].files |-> FileItem(tree[node].files[i])]

\* A descend branch that forgets the immediate files.
DescendItems_folders_only(tree, node) ==
    LET kids == ChildChains(tree, node)
    IN  [i \in DOMAIN kids |-> FolderItem(kids[i])]

\* A descend branch that appends its items twice.
DescendItems_twice(tree, node) ==
    LET kids  == ChildChains(tree, node)
        items == [i \in DOMAIN kids |-> FolderItem(kids[i])]
                   \o [i \in DOMAIN tree[node].files |-> FileItem(tree[node].files[i])]
    IN  items \o items

\* A descend branch that also schedules the files of the first child folder.
DescendItems_with_grandchildren(tree, node) ==
    LET kids == ChildChains(tree, node)
    IN  [i \in DOMAIN kids |-> FolderItem(kids[i])]
          \o [i \in DOMAIN tree[node].files |-> FileItem(tree[node].files[i])]
          \o (IF kids = <<>> THEN <<>>
              ELSE [i \in DOMAIN tree[kids[1]].files |->
                       FileItem(tree[kids[1]].files[i])])

\* The items the descend branch appends: child folders, then immediate files.
DescendItems(tree, node) ==
    LET kids == ChildChains(tree, node)
    IN  [i \in DOMAIN kids |-> FolderItem(kids[i])]
          \o [i \in DOMAIN tree[node].files |-> FileItem(tree[node].files[i])]

\* A descend branch that rebinds every key of the registry.
DescendRegistry_rebinds_all(map, tree, node, kid_ancestors) ==
    LET kids  == ChildChains(tree, node)
        bound == { tree[kids[i]].path : i \in DOMAIN kids } \cup { tree[node].path }
    IN  [p \in DOMAIN map \cup bound |-> kid_ancestors]

\* The registry after the descend branch: every child folder's path and the
\* folder's own path are bound to child_ancestors.
DescendRegistry(map, tree, node, kid_ancestors) ==
    LET kids  == ChildChains(tree, node)
        bound == { tree[kids[i]].path : i \in DOMAIN kids } \cup { tree[node].path }
    IN  [p \in DOMAIN map \cup bound |->
            IF p \in bound THEN kid_ancestors ELSE map[p]]

\* A loop that swallows the exception and goes on with the next item.
Abort_swallows ==
    /\ task_queue' = Tail(task_queue)
    /\ seen' = seen \cup { item_key(Head(task_queue)) }
    /\ UNCHANGED << files_on_disk, file_index, root, pc, ancestor_desc_map,
                    plan, db_updates, result, mapping_writes, probe >>

\* An exception leaves _bfs_classify and traverse: the locals of the run are
\* gone and no TraversalResult is returned.  The classifier's debug log and
\* the database outlive the run.
Abort ==
    /\ pc' = "aborted"
    /\ task_queue' = <<>>
    /\ seen' = {}
    /\ ancestor_desc_map' = <<>>
    /\ classifications' = <<>>
    /\ folder_decisions' = <<>>
    /\ skipped_folders' = <<>>
    /\ mappings' = <<>>
    /\ mapping_writes' = <<>>
    /\ UNCHANGED << files_on_disk, file_index, root, db_updates, result, probe >>

\* One iteration of the while loop whose item is a FolderNode (lines
\* 512-523) with the whole of _process_folder.  db_ok says whether the
\* database calls of the confident-assignment branch return or raise.
ProcessFolder ==
    /\ pc = "loop"
    /\ task_queue # <<>>
    /\ Head(task_queue).kind = "folder"
    /\ LET item == Head(task_queue)
           node == item.node
           path == root[node].path
           rest == Tail(task_queue)
       IN
       IF already_seen(item_key(item), seen)
       THEN /\ task_queue' = rest
            /\ UNCHANGED << files_on_disk, file_index, root, pc, seen,
                            ancestor_desc_map, plan, debug_log, db_updates, result,
                            mapping_writes, probe >>
       ELSE
       \E reply \in FolderReplies(path), db_ok \in BOOLEAN :
         LET my_ancestors  == GetOr(ancestor_desc_map, path, <<>>)
             folder_files  == collect_all_files(root, node)
             kid_ancestors == child_ancestors(my_ancestors, reply)
             skip_now      == ConfidentSkip(reply, confidence_threshold)
             descend       == should_descend(reply, confidence_threshold)
             uuids         == get_uuids_for_files(file_index, FileNames(folder_files))
             with_folder   == Put(classifications, path,
                                  FolderRecord(path, reply, descend, my_ancestors))
             assigning     == ~skip_now /\ ~descend
             db_called     == assigning /\ reply.folder_description # <<>>
         IN
         /\ debug_log' = Append(debug_log,
                LogEntry("folder_classification", path, my_ancestors, None, reply, FALSE))
         /\ IF db_called /\ ~db_ok
            THEN \* get_uuids_for_files or the bulk update raised
                 Abort
            ELSE
            /\ db_ok
            /\ seen' = seen \cup { item_key(item) }
            /\ folder_decisions' = Put(folder_decisions, path, reply)
            /\ IF skip_now
               THEN /\ skipped_folders' = SkippedAfter(skipped_folders, path, reply)
                    /\ classifications' = Put(classifications, path,
                           Classification(path, SKIP, reply.confidence, reply.reason,
                                          "folder", None, my_ancestors))
                    /\ task_queue' = rest
                    /\ UNCHANGED << ancestor_desc_map, mappings, db_updates,
                                    mapping_writes >>
               ELSE
               /\ skipped_folders' = SkippedAfter(skipped_folders, path, reply)
               /\ IF descend
                  THEN /\ classifications' = with_folder
                       /\ ancestor_desc_map' =
                              DescendRegistry(ancestor_desc_map, root, node, kid_ancestors)
                       /\ task_queue' = append_all(rest, DescendItems(root, node))
                       /\ UNCHANGED << mappings, db_updates, mapping_writes >>
                  ELSE /\ db_updates' =
                              IF db_called /\ uuids # <<>>
                              THEN Append(db_updates,
                                       [folder |-> path, uuids |-> uuids,
                                        folder_description |-> reply.folder_description])
                              ELSE db_updates
                       /\ classifications' = AssignClassifications(
                              with_folder, folder_files, path, reply, kid_ancestors)
                       /\ mappings' = AssignMappings(mappings, folder_files, reply)
                       /\ mapping_writes' = AssignWrites(mapping_writes, folder_files)
                       /\ task_queue' = append_all(rest, AssignItems(root, node))
                       /\ UNCHANGED ancestor_desc_map
            /\ UNCHANGED << files_on_disk, file_index, root, pc, result, probe >>

\* A drop test against a misspelt category value.
FileIsDropped_misspelt(reply) == reply.category = "Skip"

\* A file step with no drop at all.
FileIsDropped_never(reply) == FALSE

\* _process_file, line 680: `if result.category == Category.SKIP: return`.
FileIsDropped(reply) == reply.category = SKIP

\* One iteration of the while loop whose item is a FileMeta (lines 512-517,
\* 524-528) with the whole of _process_file.
ProcessFile ==
    /\ pc = "loop"
    /\ task_queue # <<>>
    /\ Head(task_queue).kind = "file"
    /\ LET item == Head(task_queue)
           f    == item.meta
           rest == Tail(task_queue)
       IN
       IF already_seen(item_key(item), seen)
       THEN /\ task_queue' = rest
            /\ UNCHANGED << files_on_disk, file_index, root, pc, seen,
                            ancestor_desc_map, plan, debug_log, db_updates, result,
                            mapping_writes, probe >>
       ELSE
       \E reply \in FileReplies :
         LET file_ancestors == GetOr(ancestor_desc_map, f.folder_path, <<>>)
         IN
         /\ seen' = seen \cup { item_key(item) }
         /\ task_queue' = rest
         /\ debug_log' = Append(debug_log,
                LogEntry("file_classification", f.source_path, file_ancestors,
                         None, reply, FALSE))
         /\ IF FileIsDropped(reply)
            THEN UNCHANGED << classifications, mappings, mapping_writes >>
            ELSE /\ classifications' = Put(classifications, f.source_path,
                        Classification(f.source_path, reply.category,
                                       reply.confidence, reply.reason, "file",
                                       None, file_ancestors))
                 /\ mappings' = Put(mappings, f.source_path,
                        FileMapping(f.source_path, reply.category, reply.reason))
                 /\ mapping_writes' = Append(mapping_writes, f.source_path)
         /\ UNCHANGED << files_on_disk, file_index, root, pc, ancestor_desc_map,
                         folder_decisions, skipped_folders, db_updates, result,
                         probe >>

\* classify_folder or classify_file raises (a failed request, or a reply
\* the structured-output parser rejects): the call is logged with its
\* error and the exception leaves _bfs_classify and traverse.
ClassifyRaises ==
    /\ pc = "loop"
    /\ task_queue # <<>>
    /\ ~already_seen(item_key(Head(task_queue)), seen)
    /\ LET item == Head(task_queue)
           key  == item_key(item)
           anc  == IF item.kind = "file"
                   THEN GetOr(ancestor_desc_map, item.meta.folder_path, <<>>)
                   ELSE GetOr(ancestor_desc_map, key, <<>>)
       IN  debug_log' = Append(debug_log,
               LogEntry(IF item.kind = "file" THEN "file_classification"
                        ELSE "folder_classification", key, anc, None, None, TRUE))
    /\ Abort

\* A return that counts every folder-level record, the folders' own too.
Finish_counts_folder_records ==
    /\ pc = "loop"
    /\ task_queue = <<>>
    /\ pc' = "done"
    /\ result' =
         [files_classified_via_folder |->
              Cardinality({ p \in DOMAIN classifications :
                  classifications[p].classified_at_level = "folder" }),
          files_classified_individually |->
              Cardinality({ p \in DOMAIN classifications :
                  classifications[p].classified_at_level = "file" })]
    /\ UNCHANGED << files_on_disk, file_index, root, task_queue, seen,
                    ancestor_desc_map, classifications, folder_decisions,
                    skipped_folders, mappings, debug_log, db_updates,
                    mapping_writes, probe >>

\* Lines 530-546: the queue is empty, the counters are computed and the
\* TraversalResult is returned.
Finish ==
    /\ pc = "loop"
    /\ task_queue = <<>>
    /\ pc' = "done"
    /\ result' =
         [files_classified_via_folder |->
              Cardinality({ p \in DOMAIN classifications :
                  /\ classifications[p].classified_at_level = "folder"
                  /\ classifications[p].parent_folder # None }),
          files_classified_individually |->
              Cardinality({ p \in DOMAIN classifications :
                  classifications[p].classified_at_level = "file" })]
    /\ UNCHANGED << files_on_disk, file_index, root, task_queue, seen,
                    ancestor_desc_map, plan, debug_log, db_updates,
                    mapping_writes, probe >>

Next ==
    \/ Seed
    \/ ProcessFolder
    \/ ProcessFile
    \/ ClassifyRaises
    \/ Finish

Spec == Init /\ [][Next]_vars

\* ------------------------------------------ a root-level file named lecture

\* The files another scan can find: a root-level file whose name is
\* "lecture" (no extension) beside a folder with a subfolder.
RootFileUniverse ==
    << <<"lecture">>,
       <<"hw", "a.py">>,
       <<"hw", "sub", "b.py">> >>

\* As Init, for a directory that holds some of the files of RootFileUniverse.
InitRootFile ==
    /\ files_on_disk \in { s \in SubSeqs(RootFileUniverse) : Len(s) <= MaxFiles }
    /\ file_index = DbNames
    /\ root = <<>>
    /\ pc = "start"
    /\ task_queue = <<>>
    /\ seen = {}
    /\ ancestor_desc_map = <<>>
    /\ classifications = <<>>
    /\ folder_decisions = <<>>
    /\ skipped_folders = <<>>
    /\ mappings = <<>>
    /\ debug_log = <<>>
    /\ db_updates = <<>>
    /\ result = None
    /\ mapping_writes = <<>>
    /\ probe = None

SpecRootFile == InitRootFile /\ [][Next]_vars

\* ------------------------------------------------- a path scanned twice

\* scan_directory turns every backslash of a relative path into a slash
\* (line 291), so a root-level file whose name is hw\a.py and the file a.py
\* of the folder hw are both listed as hw/a.py: the root's files come first
\* in os.walk, then the rest of the scan.
DupScanResults ==
    { << <<"hw", "a.py">> >> \o s :
        s \in { t \in ScanResults : \E i \in DOMAIN t : t[i] = <<"hw", "a.py">> } }

\* As Init, for a directory whose scan lists hw/a.py twice.
InitDup ==
    /\ files_on_disk \in DupScanResults
    /\ file_index = DbNames
    /\ root = <<>>
    /\ pc = "start"
    /\ task_queue = <<>>
    /\ seen = {}
    /\ ancestor_desc_map = <<>>
    /\ classifications = <<>>
    /\ folder_decisions = <<>>
    /\ skipped_folders = <<>>
    /\ mappings = <<>>
    /\ debug_log = <<>>
    /\ db_updates = <<>>
    /\ result = None
    /\ mapping_writes = <<>>
    /\ probe = None

SpecDup == InitDup /\ [][Next]_vars

\* ------------------------------------- a file path that is a folder path

\* By the same rewriting of backslashes a root-level file named hw\sub is
\* listed as hw/sub, the path of the folder sub of hw.
ClashUniverse ==
    << <<"hw", "sub">>,
       <<"hw", "a.py">>,
       <<"hw", "sub", "b.py">> >>

\* As Init, for a directory that holds some of the files of ClashUniverse.
InitClash ==
    /\ files_on_disk \in { s \in SubSeqs(ClashUniverse) : Len(s) <= MaxFiles }
    /\ file_index = DbNames
    /\ root = <<>>
    /\ pc = "start"
    /\ task_queue = <<>>
    /\ seen = {}
    /\ ancestor_desc_map = <<>>
    /\ classifications = <<>>
    /\ folder_decisions = <<>>
    /\ skipped_folders = <<>>
    /\ mappings = <<>>
    /\ debug_log = <<>>
    /\ db_updates = <<>>
    /\ result = None
    /\ mapping_writes = <<>>
    /\ probe = None

SpecClash == InitClash /\ [][Next]_vars

\* -------------------------------------------------- a long chain of folders

\* Number of nested folders above the one file of the long chain: one more
\* than MAX_ANCESTOR_DEPTH, so that the file has more folders above it than
\* the ancestor list may hold.
DeepFolders == 11

\* deep/deep/.../deep/f.txt
DeepPath == [i \in 1..DeepFolders |-> "deep"] \o <<"f.txt">>

\* As Init, for a directory that holds the long chain, alone or beside a
\* root-level file.
InitDeep ==
    /\ files_on_disk \in { << DeepPath >>, << <<"r.txt">>, DeepPath >> }
    /\ file_index = DbNames
    /\ root = <<>>
    /\ pc = "start"
    /\ task_queue = <<>>
    /\ seen = {}
    /\ ancestor_desc_map = <<>>
    /\ classifications = <<>>
    /\ folder_decisions = <<>>
    /\ skipped_folders = <<>>
    /\ mappings = <<>>
    /\ debug_log = <<>>
    /\ db_updates = <<>>
    /\ result = None
    /\ mapping_writes = <<>>
    /\ probe = None

SpecDeep == InitDeep /\ [][Next]_vars

\* ------------------------------------- a folder named lecture beside others

\* The files another scan can find: a root-level file and a file of a
\* top-level folder, each with a namesake below the folder "lecture".
LectureUniverse ==
    << <<"c.pdf">>,
       <<"hw", "a.py">>,
       <<"lecture", "c.pdf">>,
       <<"lecture", "hw", "a.py">> >>

\* As Init, for a directory that holds some of the files of LectureUniverse.
InitLecture ==
    /\ files_on_disk \in { s \in SubSeqs(LectureUniverse) : Len(s) <= MaxFiles }
    /\ file_index = DbNames
    /\ root = <<>>
    /\ pc = "start"
    /\ task_queue = <<>>
    /\ seen = {}
    /\ ancestor_desc_map = <<>>
    /\ classifications = <<>>
    /\ folder_decisions = <<>>
    /\ skipped_folders = <<>>
    /\ mappings = <<>>
    /\ debug_log = <<>>
    /\ db_updates = <<>>
    /\ result = None
    /\ mapping_writes = <<>>
    /\ probe = None

SpecLecture == InitLecture /\ [][Next]_vars

\* -------------------------------------------- an oracle that always returns

\* The steps of a run in which no classify_folder or classify_file call
\* raises.
NextReturns ==
    \/ Seed
    \/ ProcessFolder
    \/ ProcessFile
    \/ Finish

\* The loop keeps running while it can: Python executes the next statement.
SpecReturns == Init /\ [][NextReturns]_vars /\ WF_vars(NextReturns)

\* ------------------------------------------------ compute_folder_stats alone

\* The largest number of files in the directory whose statistics are taken.
MaxStatsFiles == 3

\* The files another scan can find: sources, a report, notes, a README, a
\* configuration file and a file without extension, on two levels.
StatsUniverse ==
    << <<"hw", "Makefile">>,
       <<"hw", "NOTES.TXT">>,
       <<"hw", "README.md">>,
       <<"hw", "a.py">>,
       <<"hw", "sub", "b.py">>,
       <<"hw", "sub", "c.pdf">>,
       <<"hw", "sub", "conf.json">> >>

\* os.path.splitext(file_name)[1]: the last dot and what follows it, ""
\* when the name has no dot.
splitext_ext(file_name) ==
    CASE file_name \in { "a.py", "b.py" }                       -> ".py"
      [] file_name = "c.pdf"                                    -> ".pdf"
      [] file_name = "README.md"                                -> ".md"
      [] file_name = "NOTES.TXT"                                -> ".TXT"
      [] file_name \in { "r.txt", "f.txt", "old.txt" }          -> ".txt"
      [] file_name = "conf.json"                                -> ".json"
      [] OTHER                                                  -> ""

\* str.lower() on an extension.
lower(ext) == IF ext = ".TXT" THEN ".txt" ELSE ext

\* ext = os.path.splitext(f.file_name)[1].lower() or "(no ext)"
extension_of(file_name) ==
    LET ext == lower(splitext_ext(file_name))
    IN  IF ext = "" THEN "(no ext)" ELSE ext

\* metadata_exts of compute_folder_stats.
metadata_exts == { ".yaml", ".yml", ".json", ".md", ".txt", ".toml", ".ini" }

\* ext_counts after the loop over all_files.
extension_counts(files) ==
    [e \in { extension_of(files[i].file_name) : i \in DOMAIN files } |->
        Cardinality({ i \in DOMAIN files : extension_of(files[i].file_name) = e })]

\* The keys of ext_counts in insertion order: each extension where it is
\* first met.
extension_order(files) ==
    LET exts == [i \in DOMAIN files |-> extension_of(files[i].file_name)]
        firsts == { i \in DOMAIN exts : \A j \in 1..(i - 1) : exts[j] # exts[i] }
    IN  SelectSeq([i \in DOMAIN exts |-> IF i \in firsts THEN exts[i] ELSE ""],
                  LAMBDA e : e # "")

RECURSIVE sorted_by_count(_, _)
\* sorted(ext_counts.items(), key=lambda x: -x[1]): larger counts first,
\* equal counts in insertion order (the sort is stable).
sorted_by_count(order, counts) ==
    IF order = <<>> THEN <<>>
    ELSE LET best == CHOOSE i \in DOMAIN order :
                        /\ \A j \in DOMAIN order : counts[order[j]] <= counts[order[i]]
                        /\ \A j \in 1..(i - 1) : counts[order[j]] < counts[order[i]]
         IN  << order[best] >>
               \o sorted_by_count(SelectSeq(order, LAMBDA e : e # order[best]), counts)

\* Statistics whose homogeneity test counts the metadata extensions too.
compute_folder_stats_counts_metadata(tree, k) ==
    LET all_files == collect_all_files(tree, k)
        counts    == extension_counts(all_files)
        sorted    == sorted_by_count(extension_order(all_files), counts)
    IN  [total_file_count     |-> Len(all_files),
         immediate_file_count |-> Len(tree[k].files),
         subfolder_count      |-> Len(tree[k].children),
         subfolder_names      |-> Range(tree[k].children),
         extension_counts     |-> counts,
         is_homogeneous       |-> Cardinality(DOMAIN counts) <= 1,
         primary_extensions   |-> SubSeq(sorted, 1, IF Len(sorted) < 3 THEN Len(sorted) ELSE 3)]

\* compute_folder_stats(node).  subfolder_names is the set of the child
\* names (the code sorts them).
compute_folder_stats(tree, k) ==
    LET all_files    == collect_all_files(tree, k)
        counts       == extension_counts(all_files)
        sorted       == sorted_by_count(extension_order(all_files), counts)
        content_exts == { e \in DOMAIN counts : e \notin metadata_exts }
    IN  [total_file_count     |-> Len(all_files),
         immediate_file_count |-> Len(tree[k].files),
         subfolder_count      |-> Len(tree[k].children),
         subfolder_names      |-> Range(tree[k].children),
         extension_counts     |-> counts,
         is_homogeneous       |-> Cardinality(content_exts) <= 1,
         primary_extensions   |-> SubSeq(sorted, 1, IF Len(sorted) < 3 THEN Len(sorted) ELSE 3)]

\* The engine is idle; a directory has been scanned and the statistics of
\* one of its folders are about to be taken.
InitStats ==
    /\ files_on_disk \in { s \in SubSeqs(StatsUniverse) : Len(s) <= MaxStatsFiles }
    /\ probe = [node |-> <<>>, done |-> FALSE, value |-> <<>>]
    /\ file_index = DbNames
    /\ root = <<>>
    /\ pc = "idle"
    /\ task_queue = <<>>
    /\ seen = {}
    /\ ancestor_desc_map = <<>>
    /\ classifications = <<>>
    /\ folder_decisions = <<>>
    /\ skipped_folders = <<>>
    /\ mappings = <<>>
    /\ debug_log = <<>>
    /\ db_updates = <<>>
    /\ result = None
    /\ mapping_writes = <<>>

\* The tree is built and compute_folder_stats returns for one of its nodes.
ApplyComputeFolderStats ==
    /\ pc = "idle"
    /\ ~probe.done
    /\ LET tree == build_tree(files_on_disk, file_index)
       IN  /\ root' = tree
           /\ \E k \in DOMAIN tree :
                 probe' = [node |-> k, done |-> TRUE,
                           value |-> compute_folder_stats(tree, k)]
    /\ UNCHANGED << files_on_disk, file_index, pc, task_queue, seen,
                    ancestor_desc_map, plan, debug_log, db_updates, result,
                    mapping_writes >>

NextStats == ApplyComputeFolderStats

SpecStats == InitStats /\ [][NextStats]_vars

\* ------------------------------------------------ the earlier engine, bfs_v1

\* bfs_v1.DEFAULT_CONFIDENCE_THRESHOLD (0.7, in hundredths).
V1_DEFAULT_CONFIDENCE_THRESHOLD == 70

\* bfs_v1.ClassificationResult(category, confidence, reason, is_mixed)
V1ClassificationResult(category, confidence, reason, is_mixed) ==
    [category |-> category, confidence |-> confidence, reason |-> reason,
     is_mixed |-> is_mixed]

\* bfs_v1.ClassificationResult.is_confident(threshold)
v1_is_confident(res, threshold) ==
    res.confidence >= threshold /\ ~res.is_mixed

\* bfs_v1.Classification(path, category, confidence, reason,
\*                       classified_at_level, parent_folder)
V1Classification(path, category, confidence, reason, level, parent) ==
    [path |-> path, category |-> category, confidence |-> confidence,
     reason |-> reason, classified_at_level |-> level, parent_folder |-> parent]

\* What the classifier of bfs_v1 may return for a folder: confidences just
\* below and at the threshold.
V1FolderReplies ==
    { V1ClassificationResult(c, conf, <<"why">>, m) :
        c \in Category,
        conf \in { V1_DEFAULT_CONFIDENCE_THRESHOLD - 1, V1_DEFAULT_CONFIDENCE_THRESHOLD },
        m \in BOOLEAN }

\* What it may return for a file.
V1FileReplies ==
    { V1ClassificationResult(c, V1_DEFAULT_CONFIDENCE_THRESHOLD + 20, <<"why">>, FALSE) :
        c \in Category }

\* bfs_v1: should_descend of _bfs_classify (lines 434-438).
v1_should_descend(res, threshold) ==
    \/ res.category = SKIP
    \/ ~v1_is_confident(res, threshold)
    \/ res.is_mixed

RECURSIVE V1AssignClassifications(_, _, _, _)
\* bfs_v1: `for file_meta in all_files: classifications[...] = ...`
V1AssignClassifications(cls, files, folder_path, reply) ==
    IF files = <<>> THEN cls
    ELSE V1AssignClassifications(
             Put(cls, Head(files).source_path,
                 V1Classification(Head(files).source_path, reply.category,
                     reply.confidence,
                     <<"Inherited from folder">> \o folder_path \o reply.reason,
                     "folder", folder_path)),
             Tail(files), folder_path, reply)

\* bfs_v1: traverse() up to the while loop of _bfs_classify.  build_tree of
\* bfs_v1 has the body of the later one; the two counters start at 0.
V1Seed ==
    /\ pc = "start"
    /\ LET tree == build_tree(files_on_disk, file_index)
           kids == ChildChains(tree, <<>>)
       IN  /\ root' = tree
           /\ task_queue' = [i \in DOMAIN kids |-> FolderItem(kids[i])]
                  \o [i \in DOMAIN tree[<<>>].files |-> FileItem(tree[<<>>].files[i])]
    /\ result' = [files_classified_via_folder |-> 0,
                  files_classified_individually |-> 0]
    /\ pc' = "loop"
    /\ UNCHANGED << files_on_disk, file_index, seen, ancestor_desc_map,
                    classifications, folder_decisions, skipped_folders, mappings,
                    debug_log, db_updates, mapping_writes, probe >>

\* bfs_v1: one iteration of the while loop whose item is a FolderNode
\* (lines 424-497).
V1ProcessFolder ==
    /\ pc = "loop"
    /\ task_queue # <<>>
    /\ Head(task_queue).kind = "folder"
    /\ LET node == Head(task_queue).node
           path == root[node].path
           rest == Tail(task_queue)
       IN
       \E reply \in V1FolderReplies :
         LET descend   == v1_should_descend(reply, V1_DEFAULT_CONFIDENCE_THRESHOLD)
             all_files == collect_all_files(root, node)
         IN
         /\ folder_decisions' = Put(folder_decisions, path, reply)
         /\ IF reply.category = SKIP
            THEN /\ skipped_folders' = Append(skipped_folders, path)
                 /\ classifications' = Put(classifications, path,
                        V1Classification(path, SKIP, reply.confidence,
                                         reply.reason, "folder", None))
                 /\ task_queue' = rest
                 /\ UNCHANGED result
            ELSE IF descend
            THEN /\ classifications' = Put(classifications, path,
                        V1Classification(path, reply.category, reply.confidence,
                            reply.reason \o <<" [descended for file-level classification]">>,
                            "folder", None))
                 /\ task_queue' = rest \o DescendItems(root, node)
                 /\ UNCHANGED << skipped_folders, result >>
            ELSE /\ classifications' = V1AssignClassifications(
                        Put(classifications, path,
                            V1Classification(path, reply.category, reply.confidence,
                                             reply.reason, "folder", None)),
                        all_files, path, reply)
                 /\ result' = [result EXCEPT !.files_classified_via_folder =
                                  @ + Len(all_files)]
                 /\ task_queue' = rest
                 /\ UNCHANGED skipped_folders
    /\ UNCHANGED << files_on_disk, file_index, root, pc, seen, ancestor_desc_map,
                    mappings, debug_log, db_updates, mapping_writes, probe >>

\* bfs_v1: one iteration of the while loop whose item is a FileMeta (lines
\* 499-518).
V1ProcessFile ==
    /\ pc = "loop"
    /\ task_queue # <<>>
    /\ Head(task_queue).kind = "file"
    /\ LET f == Head(task_queue).meta
       IN
       \E reply \in V1FileReplies :
         IF reply.category = SKIP
         THEN UNCHANGED << classifications, result >>
         ELSE /\ classifications' = Put(classifications, f.source_path,
                     V1Classification(f.source_path, reply.category,
                                      reply.confidence, reply.reason, "file", None))
              /\ result' = [result EXCEPT !.files_classified_individually = @ + 1]
    /\ task_queue' = Tail(task_queue)
    /\ UNCHANGED << files_on_disk, file_index, root, pc, seen, ancestor_desc_map,
                    folder_decisions, skipped_folders, mappings, debug_log,
                    db_updates, mapping_writes, probe >>

\* bfs_v1: the queue is empty and the TraversalResult is returned (lines
\* 520-526) with the counters as they stand.
V1Finish ==
    /\ pc = "loop"
    /\ task_queue = <<>>
    /\ pc' = "done"
    /\ UNCHANGED << files_on_disk, file_index, root, task_queue, seen,
                    ancestor_desc_map, plan, debug_log, db_updates, result,
                    mapping_writes, probe >>

NextV1 ==
    \/ V1Seed
    \/ V1ProcessFolder
    \/ V1ProcessFile
    \/ V1Finish

SpecV1 == Init /\ [][NextV1]_vars

\* ------------------------------------------------ build_dest_rel alone

\* Longest top-folder text and longest tail text handed to build_dest_rel.
MaxTopLen == 2

MaxTailLen == 3

\* The marks of those texts: two names, whitespace, a backslash, a slash.
TextMarks == { "hw", "lecture", " ", "\\", "/" }

Texts(n) == UNION { [1..k -> TextMarks] : k \in 0..n }

\* The engine is idle; build_dest_rel is about to be called with a category
\* value, a top-folder text and a tail text.
InitDest ==
    /\ probe \in { [category |-> c, top_folder |-> top, tail |-> tail,
                    done |-> FALSE, value |-> <<>>] :
                   c \in Category, top \in Texts(MaxTopLen),
                   tail \in Texts(MaxTailLen) }
    /\ files_on_disk = <<>>
    /\ file_index = DbNames
    /\ root = <<>>
    /\ pc = "idle"
    /\ task_queue = <<>>
    /\ seen = {}
    /\ ancestor_desc_map = <<>>
    /\ classifications = <<>>
    /\ folder_decisions = <<>>
    /\ skipped_folders = <<>>
    /\ mappings = <<>>
    /\ debug_log = <<>>
    /\ db_updates = <<>>
    /\ result = None
    /\ mapping_writes = <<>>

\* The call returns.
ApplyBuildDestRel ==
    /\ pc = "idle"
    /\ ~probe.done
    /\ probe' = [probe EXCEPT
                   !.done = TRUE,
                   !.value = build_dest_rel(probe.category, probe.top_folder,
                                            probe.tail)]
    /\ UNCHANGED << files_on_disk, file_index, root, pc, task_queue, seen,
                    ancestor_desc_map, plan, debug_log, db_updates, result,
                    mapping_writes >>

NextDest == ApplyBuildDestRel

SpecDest == InitDest /\ [][NextDest]_vars

\* ------------------------------------------- vocabulary of the properties

\* The scanned files and the folders above them, read off the scanned paths.
InputFiles == Range(files_on_disk)

InputFolders ==
    UNION { { SubSeq(f, 1, n) : n \in 1..(Len(f) - 1) } : f \in InputFiles }

\* x lies strictly below folder d.
Under(x, d) == Len(x) > Len(d) /\ SubSeq(x, 1, Len(d)) = d

\* The folders strictly above x.
AncestorsOf(x) == { d \in InputFolders : Under(x, d) }

\* x is an immediate child (folder or file) of folder d.
ChildOf(x, d) == Under(x, d) /\ Len(x) = Len(d) + 1

Threshold == confidence_threshold

\* The three outcomes of a folder decision, as the specification words them.
IsConfidentSkip(r) == r.category = "skip" /\ r.confidence >= Threshold

IsConfidentAssignment(r) ==
    r.category # "skip" /\ r.confidence >= Threshold /\ ~r.is_mixed

IsDescent(r) == ~IsConfidentSkip(r) /\ ~IsConfidentAssignment(r)

Decided(d) == d \in DOMAIN folder_decisions

\* Every folder above x has been decided and descended into.
Reached(x) ==
    \A d \in AncestorsOf(x) : Decided(d) /\ IsDescent(folder_decisions[d])

Running == pc \in { "loop", "done" }

\* The oracle calls logged for a path.
CallsOf(call_type, x) ==
    { i \in DOMAIN debug_log :
        debug_log[i].call_type = call_type /\ debug_log[i].path = x }

\* The paths of the items waiting in the queue.
Queued == { item_key(task_queue[i]) : i \in DOMAIN task_queue }

\* ----------------------------------------------------------------- C1
\* C1: in one run classify_folder is called at most once for any folder
\* path; a folder has been called for exactly when it was dequeued and
\* processed (it is in the visited set and has a decision); and when the
\* run ends the folders called for are exactly those the traversal reached
\* (every folder above them was descended), whatever their subtree holds.
C1_OneFolderCallPerFolder ==
    \A d \in InputFolders :
        LET n == Cardinality(CallsOf("folder_classification", d))
        IN  /\ n <= 1
            /\ CallsOf("file_classification", d) = {}
            /\ Running => /\ (n = 1) = (d \in seen)
                          /\ (n = 1) = Decided(d)
            /\ pc = "done" => (n = 1) = Reached(d)

\* A finished run that called once for a nested folder and once for its
\* parent, and not at all for a folder under a pruned or assigned parent.
C1_Witness ==
    /\ pc = "done"
    /\ \E d \in InputFolders :
          /\ Len(d) = 2
          /\ Cardinality(CallsOf("folder_classification", d)) = 1
          /\ Cardinality(CallsOf("folder_classification", Front(d))) = 1

ChildrenScheduled(d) ==
    \A x \in InputFiles \cup InputFolders :
        ChildOf(x, d) => x \in Queued \cup seen

\* Every immediate child of folder d got exactly one call of its own kind.
ChildrenClassified(d) ==
    /\ \A x \in InputFolders :
          ChildOf(x, d) => Cardinality(CallsOf("folder_classification", x)) = 1
    /\ \A x \in InputFiles :
          ChildOf(x, d) => Cardinality(CallsOf("file_classification", x)) = 1

\* No record says a file took its category from folder d.
NothingInheritedFrom(d) ==
    \A x \in DOMAIN classifications : classifications[x].parent_folder # d

\* The folder record of d is the provisional one.
MarkedDescended(d) ==
    /\ d \in DOMAIN classifications
    /\ classifications[d].classified_at_level = "folder"
    /\ classifications[d].parent_folder = None
    /\ classifications[d].reason # <<>>
    /\ Last(classifications[d].reason) = " [descended]"

\* ----------------------------------------------------------------- C3
\* C3: a folder whose decision has is_mixed = true is always descended,
\* whatever its category and confidence: its child folders and immediate
\* files are enqueued and no file takes the folder's category directly.
C3_MixedAlwaysDescends ==
    Running =>
        \A d \in InputFolders :
            (Decided(d) /\ folder_decisions[d].is_mixed) =>
                /\ ChildrenScheduled(d)
                /\ NothingInheritedFrom(d)

HasMapping(f) ==
    /\ f \in DOMAIN mappings
    /\ f \in DOMAIN classifications
    /\ mappings[f].source_rel = f

SkippedIndividually(f) ==
    /\ \E i \in CallsOf("file_classification", f) :
          ~debug_log[i].error /\ debug_log[i].parsed.category = "skip"
    /\ f \notin DOMAIN mappings
    /\ f \notin DOMAIN classifications

UnderSkippedFolder(f) ==
    /\ \E d \in AncestorsOf(f) :
          Decided(d) /\ IsConfidentSkip(folder_decisions[d])
    /\ f \notin DOMAIN mappings
    /\ f \notin DOMAIN classifications

C7_AssignedFilesShareCategory ==
    Running =>
        \A d \in InputFolders :
            (Decided(d) /\ IsConfidentAssignment(folder_decisions[d])) =>
                \A f \in InputFiles :
                    Under(f, d) =>
                        /\ f \in DOMAIN mappings
                        /\ mappings[f].category = folder_decisions[d].category

\* A confidently assigned folder with an immediate file and a file in a
\* subfolder, both mapped.
C7_Witness ==
    /\ pc = "done"
    /\ \E d \in InputFolders :
          /\ Decided(d)
          /\ IsConfidentAssignment(folder_decisions[d])
          /\ \E f, g \in InputFiles :
                /\ ChildOf(f, d) /\ Under(g, d) /\ ~ChildOf(g, d)
                /\ f \in DOMAIN mappings /\ g \in DOMAIN mappings

FileSkipStep ==
    /\ Len(debug_log') = Len(debug_log) + 1
    /\ Last(debug_log').call_type = "file_classification"
    /\ ~Last(debug_log').error
    /\ Last(debug_log').parsed.category = "skip"

\* C9: the step that classifies a file Skip leaves the classifications and
\* the mappings unchanged, and afterwards neither holds the file's path.
C9_SkippedFileDropped ==
    [][ FileSkipStep =>
            /\ classifications' = classifications
            /\ mappings' = mappings
            /\ Last(debug_log').path \notin DOMAIN classifications'
            /\ Last(debug_log').path \notin DOMAIN mappings' ]_vars

\* A file was just classified Skip while the plan already held a mapping.
C9_Witness ==
    /\ pc = "loop"
    /\ debug_log # <<>>
    /\ Last(debug_log).call_type = "file_classification"
    /\ ~Last(debug_log).error
    /\ Last(debug_log).parsed.category = "skip"
    /\ mappings # <<>>

\* ---------------------------------------------------------------- C10
\* C10: no mapping ever has category Skip, and no file ever inherits Skip
\* from a folder: the assignment branch is not taken with a Skip decision
\* and a file-level Skip writes nothing.
C10_NoSkipMapping ==
    /\ \A f \in DOMAIN mappings : mappings[f].category # "skip"
    /\ \A x \in DOMAIN classifications :
          classifications[x].parent_folder # None =>
              classifications[x].category # "skip"

\* A finished run in which a folder and a file were decided Skip and
\* another file was mapped.
C10_Witness ==
    /\ pc = "done"
    /\ mappings # <<>>
    /\ \E d \in InputFolders :
          Decided(d) /\ folder_decisions[d].category = "skip"
    /\ \E f \in InputFiles : SkippedIndividually(f)

\* ---------------------------------------------------------------- C11
\* C11: every entry of the mapping store is keyed by its own source_rel,
\* that source_rel is one of the scanned input file paths, and no path
\* appears twice as a key (two entries never carry the same source_rel).
C11_MappingKeysAreSources ==
    /\ \A k \in DOMAIN mappings :
          /\ mappings[k].source_rel = k
          /\ k \in InputFiles
    /\ \A j, k \in DOMAIN mappings :
          mappings[j].source_rel = mappings[k].source_rel => j = k

\* A finished run whose store holds one mapping inherited from a folder in
\* a top-level folder and one written for an individually classified file.
C11_Witness ==
    /\ pc = "done"
    /\ \E j, k \in DOMAIN mappings :
          /\ Len(j) > 1
          /\ classifications[j].classified_at_level = "folder"
          /\ classifications[k].classified_at_level = "file"

\* ---------------------------------------------------------------- C12
\* C12: for all top-folder names and tails, build_dest_rel returns
\* practice/<top>/<tail> for Practice, support/<top>/<tail> for Support,
\* study/lecture/<tail> for Study when the top folder is named lecture, and
\* study/lecture/<top>/<tail> for Study otherwise.
C12_DestRelByCategory ==
    probe.done =>
        LET top  == probe.top_folder
            tail == probe.tail
        IN  /\ probe.category = "practice" =>
                  probe.value = <<"practice", "/">> \o top \o <<"/">> \o tail
            /\ probe.category = "support" =>
                  probe.value = <<"support", "/">> \o top \o <<"/">> \o tail
            /\ probe.category = "study" /\ top = <<"lecture">> =>
                  probe.value = <<"study", "/", "lecture", "/">> \o tail
            /\ probe.category = "study" /\ top # <<"lecture">> =>
                  probe.value =
                      <<"study", "/", "lecture", "/">> \o top \o <<"/">> \o tail

\* A text that _join_rel keeps as it is: not empty, no whitespace at either
\* end, no backslash.
IsCleanText(text) ==
    /\ text # <<>>
    /\ Head(text) # " "
    /\ text[Len(text)] # " "
    /\ \A i \in DOMAIN text : text[i] # "\\"

\* C12, amended: the four forms hold for top-folder names and tails that
\* are non-empty, have no whitespace at either end and hold no backslash;
\* with an empty top folder (a root-level file) and such a tail the <top>
\* segment is left out: practice/<tail>, support/<tail>, study/lecture/<tail>.
C12_DestRelOfCleanNames ==
    (probe.done /\ IsCleanText(probe.tail)) =>
        LET top  == probe.top_folder
            tail == probe.tail
            mid  == IF top = <<>> THEN <<>> ELSE top \o <<"/">>
        IN  (top = <<>> \/ IsCleanText(top)) =>
            /\ probe.category = "practice" =>
                  probe.value = <<"practice", "/">> \o mid \o tail
            /\ probe.category = "support" =>
                  probe.value = <<"support", "/">> \o mid \o tail
            /\ probe.category = "study" /\ top = <<"lecture">> =>
                  probe.value = <<"study", "/", "lecture", "/">> \o tail
            /\ probe.category = "study" /\ top # <<"lecture">> =>
                  probe.value = <<"study", "/", "lecture", "/">> \o mid \o tail

\* build_dest_rel has returned study/lecture/hw/hw for Study, the top
\* folder lecture and the tail hw/hw.
C12_Witness ==
    /\ probe.done
    /\ probe.category = "study"
    /\ probe.top_folder = <<"lecture">>
    /\ probe.tail = <<"hw", "/", "hw">>
    /\ probe.value = <<"study", "/", "lecture", "/", "hw", "/", "hw">>

\* ---------------------------------------------------------------- C13
\* C13: the dest_rel of a mapped file depends only on its final category
\* and its own source path: it is build_dest_rel(category, first segment of
\* the source path, rest of the source path), whether the category was
\* inherited from a confidently assigned folder or the file was classified
\* individually.
C13_DestRelFromFirstSegment ==
    \A f \in DOMAIN mappings :
        mappings[f].dest_rel =
            build_dest_rel(mappings[f].category, <<f[1]>>, PathText(Tail(f)))

\* C13, amended: the dest_rel of a mapped file depends only on its final
\* category and its own source path, on either route: for a file inside a
\* folder it is build_dest_rel(category, first segment, rest of the path),
\* for a root-level file it is build_dest_rel(category, "", whole path).
C13_DestRelFromTopFolder ==
    \A f \in DOMAIN mappings :
        mappings[f].dest_rel =
            IF Len(f) > 1
            THEN build_dest_rel(mappings[f].category, <<f[1]>>, PathText(Tail(f)))
            ELSE build_dest_rel(mappings[f].category, <<>>, PathText(f))

\* A finished run in which a file two folders deep inherited its category
\* from the inner folder and the root-level file was classified by itself.
C13_Witness ==
    /\ pc = "done"
    /\ \E j, k \in DOMAIN mappings :
          /\ Len(j) = 3
          /\ classifications[j].classified_at_level = "folder"
          /\ classifications[j].parent_folder = SubSeq(j, 1, 2)
          /\ Len(k) = 1
          /\ classifications[k].classified_at_level = "file"

\* ---------------------------------------------------------------- C14
\* C14: update_folder_description_bulk is invoked only while a folder is
\* processed in the confident-assignment branch: every step that adds a
\* propagation call is the step of one folder call whose reply is a
\* confident non-Skip, non-mixed decision, and the call is made for that
\* folder; no step of a descended folder, of a confidently skipped folder
\* or of a file adds one.
C14_PropagationOnlyOnAssignment ==
    [][ db_updates' # db_updates =>
          /\ Len(db_updates') = Len(db_updates) + 1
          /\ SubSeq(db_updates', 1, Len(db_updates)) = db_updates
          /\ Len(debug_log') = Len(debug_log) + 1
          /\ LET call == debug_log'[Len(debug_log')]
                 d    == db_updates'[Len(db_updates')].folder
             IN  /\ call.call_type = "folder_classification"
                 /\ ~call.error
                 /\ call.path = d
                 /\ IsConfidentAssignment(call.parsed)
                 /\ d \in DOMAIN folder_decisions'
                 /\ folder_decisions'[d] = call.parsed ]_vars

\* A finished run with one propagation call, made for a confidently
\* assigned folder, beside a descended folder and a file classified by itself.
C14_Witness ==
    /\ pc = "done"
    /\ Len(db_updates) = 1
    /\ \E d \in InputFolders : Decided(d) /\ IsDescent(folder_decisions[d])
    /\ \E f \in InputFiles : CallsOf("file_classification", f) # {}

\* ---------------------------------------------------------------- C15
\* The propagation calls made for folder d.
PropagationsOf(d) == { i \in DOMAIN db_updates : db_updates[i].folder = d }

\* The scanned files below folder d.
SubtreeFiles(d) == { f \in InputFiles : Under(f, d) }

\* C15: every confident non-Skip folder assignment invokes the propagation
\* boundary exactly once, with the folder's description and the
\* identifiers of every file in that subtree, and of no file outside it.
C15_EveryAssignmentPropagates ==
    \A d \in InputFolders :
        (Decided(d) /\ IsConfidentAssignment(folder_decisions[d])) =>
            /\ Cardinality(PropagationsOf(d)) = 1
            /\ \A i \in PropagationsOf(d) :
                  /\ db_updates[i].folder_description =
                         folder_decisions[d].folder_description
                  /\ Range(db_updates[i].uuids) =
                         { <<"uuid", Last(f)>> : f \in SubtreeFiles(d) }

\* The identifiers of the database rows whose file name is the name of a
\* file below folder d.
RowsFoundBelow(d) ==
    { <<"uuid", Last(f)>> : f \in { g \in SubtreeFiles(d) : Last(g) \in file_index } }

\* C15, amended: a confident non-Skip folder assignment whose reply has a
\* non-empty folder description, and for whose subtree the lookup by file
\* name finds at least one database row, invokes the propagation boundary
\* exactly once, with that description and the identifiers of exactly the
\* rows found for the names of the subtree's files; an assignment with an
\* empty description or with no row found invokes it not at all.
C15_AssignmentPropagatesFoundRows ==
    \A d \in InputFolders :
        (Decided(d) /\ IsConfidentAssignment(folder_decisions[d])) =>
            IF folder_decisions[d].folder_description # <<>>
               /\ RowsFoundBelow(d) # {}
            THEN /\ Cardinality(PropagationsOf(d)) = 1
                 /\ \A i \in PropagationsOf(d) :
                       /\ db_updates[i].folder_description =
                              folder_decisions[d].folder_description
                       /\ Range(db_updates[i].uuids) = RowsFoundBelow(d)
            ELSE PropagationsOf(d) = {}

\* A finished run in which one confidently assigned folder with a
\* description and two files, one of them with a database row, was
\* propagated, and nothing else was.
C15_Witness ==
    /\ pc = "done"
    /\ Len(db_updates) = 1
    /\ \E d \in InputFolders :
          /\ Decided(d)
          /\ IsConfidentAssignment(folder_decisions[d])
          /\ Cardinality(SubtreeFiles(d)) = 2
          /\ Cardinality(RowsFoundBelow(d)) = 1
          /\ PropagationsOf(d) = {1}

\* ---------------------------------------------------------------- C16
\* C16: a failure of description propagation during a confident assignment
\* is non-fatal.  Whenever the last oracle call returned a confident
\* non-Skip decision for a folder, whatever the database calls of that
\* step did, the traversal is still running or has finished, the folder is
\* recorded as decided, and every file below it has its classification and
\* its mapping.
C16_PropagationFailureNonFatal ==
    (/\ debug_log # <<>>
     /\ Last(debug_log).call_type = "folder_classification"
     /\ ~Last(debug_log).error
     /\ IsConfidentAssignment(Last(debug_log).parsed)) =>
        /\ Running
        /\ Decided(Last(debug_log).path)
        /\ \A f \in SubtreeFiles(Last(debug_log).path) :
              f \in DOMAIN classifications /\ f \in DOMAIN mappings

\* ---------------------------------------------------------------- C17
\* C17: if an oracle call fails (the request fails, or the reply is
\* rejected because its category is outside the four values), the
\* traversal aborts at that call: the failed call stays the last call ever
\* logged (no further item is processed, no retry), nothing is left in the
\* queue, the run is aborted and no TraversalResult has been returned.
C17_OracleFailureAborts ==
    \A i \in DOMAIN debug_log :
        debug_log[i].error =>
            /\ i = Len(debug_log)
            /\ pc = "aborted"
            /\ task_queue = <<>>
            /\ result = None

\* The third oracle call of a run failed, after a folder was descended and
\* a file was classified.
C17_Witness ==
    /\ Len(debug_log) = 3
    /\ ~debug_log[1].error
    /\ debug_log[1].call_type = "folder_classification"
    /\ ~debug_log[2].error
    /\ debug_log[3].error
    /\ pc = "aborted"

\* ---------------------------------------------------------------- C18
\* C18: every path is processed at most once per run (no path has two
\* oracle calls), and a step that dequeues an item whose path is already in
\* the visited set makes no oracle call and leaves the classifications, the
\* mappings, the folder decisions, the skipped folders, the ancestor
\* registry, the visited set and the rest of the queue as they were.
C18_VisitedItemIsDropped ==
    [][ /\ \A i, j \in DOMAIN debug_log' :
             debug_log'[i].path = debug_log'[j].path => i = j
        /\ (/\ pc = "loop"
            /\ task_queue # <<>>
            /\ item_key(Head(task_queue)) \in seen) =>
               /\ task_queue' = Tail(task_queue)
               /\ UNCHANGED << debug_log, classifications, mappings,
                               folder_decisions, skipped_folders,
                               ancestor_desc_map, seen, db_updates,
                               mapping_writes, pc, result >> ]_vars

\* A finished run over a scan that lists hw/a.py twice: the folder hw was
\* descended, both items were dequeued, the file has one oracle call and
\* one mapping written once.
C18_Witness ==
    /\ pc = "done"
    /\ Len(files_on_disk) = 2
    /\ files_on_disk[1] = files_on_disk[2]
    /\ Decided(<<"hw">>)
    /\ IsDescent(folder_decisions[<<"hw">>])
    /\ Cardinality(CallsOf("file_classification", files_on_disk[1])) = 1
    /\ mapping_writes = << files_on_disk[1] >>

\* ---------------------------------------------------------------- C19
\* The scanned file paths are pairwise distinct.
DistinctFilePaths ==
    \A i, j \in DOMAIN files_on_disk :
        files_on_disk[i] = files_on_disk[j] => i = j

\* No scanned file path is the path of a folder above another scanned file.
NoFileIsAFolder == InputFiles \cap InputFolders = {}

\* Every waiting item is the only one with its path, is not yet visited,
\* and every folder above it has been decided and descended into.
EachNodeEnqueuedOnce ==
    /\ \A i, j \in DOMAIN task_queue :
          item_key(task_queue[i]) = item_key(task_queue[j]) => i = j
    /\ \A i \in DOMAIN task_queue :
          /\ item_key(task_queue[i]) \notin seen
          /\ Reached(item_key(task_queue[i]))

\* C19: for a tree built from distinct file paths, every node is enqueued
\* at most once, and only by the seeding or by the processing step of its
\* parent, so that no waiting item (and so no dequeued item) is already in
\* the visited set.
C19_EachNodeEnqueuedOnce ==
    DistinctFilePaths => EachNodeEnqueuedOnce

\* C19, amended: the same, for a tree built from distinct file paths none
\* of which is also the path of a folder.
C19_EachNodeEnqueuedOnceNoClash ==
    (DistinctFilePaths /\ NoFileIsAFolder) => EachNodeEnqueuedOnce

\* A folder was descended; its child folder and its file, with different
\* paths, wait in the queue, and neither is visited.
C19_Witness ==
    /\ pc = "loop"
    /\ DistinctFilePaths
    /\ NoFileIsAFolder
    /\ seen # {}
    /\ \E i, j \in DOMAIN task_queue :
          /\ task_queue[i].kind = "folder"
          /\ task_queue[j].kind = "file"
          /\ Len(item_key(task_queue[j])) > 1

\* ---------------------------------------------------------------- C20
\* C20: each key of the mapping store is written exactly once during a run
\* and a FileMapping is never changed afterwards: no write hits a key that
\* is already present.
C20_EachKeyWrittenOnce ==
    /\ \A k \in DOMAIN mappings :
          Cardinality({ i \in DOMAIN mapping_writes : mapping_writes[i] = k }) = 1
    /\ \A i \in DOMAIN mapping_writes : mapping_writes[i] \in DOMAIN mappings

\* ---------------------------------------------------------------- C21
\* The names of the other scanned files in the immediate folder of file f.
SiblingNamesOf(f) ==
    { Last(g) : g \in { h \in InputFiles : h # f /\ Front(h) = Front(f) } }

\* C21: every classify_file call the engine makes is supplied with the
\* sibling names of the file: the names of the other files in the same
\* immediate folder.
C21_SiblingNamesSupplied ==
    \A i \in DOMAIN debug_log :
        debug_log[i].call_type = "file_classification" =>
            Range(debug_log[i].sibling_names) = SiblingNamesOf(debug_log[i].path)

\* ---------------------------------------------------------------- C22
\* C22: once a folder has been confidently assigned, no classify_folder or
\* classify_file call is made for any folder or file of its subtree, and
\* none of them is enqueued (none waits in the queue, none was dequeued).
C22_NothingBelowAssignedFolder ==
    \A d \in InputFolders :
        (Decided(d) /\ IsConfidentAssignment(folder_decisions[d])) =>
            \A x \in InputFiles \cup InputFolders :
                Under(x, d) =>
                    /\ CallsOf("folder_classification", x) = {}
                    /\ CallsOf("file_classification", x) = {}
                    /\ x \notin Queued
                    /\ x \notin seen

\* A finished run whose first call confidently assigned a folder that
\* holds a subfolder, and which made another call afterwards.
C22_Witness ==
    /\ pc = "done"
    /\ Len(debug_log) >= 2
    /\ \E d, x \in InputFolders :
          /\ Under(x, d)
          /\ Decided(d)
          /\ IsConfidentAssignment(folder_decisions[d])
          /\ debug_log[1].path = d

\* ---------------------------------------------------------------- C23
\* C23: a folder's decision completes before any of its children is
\* enqueued: every waiting item has all the folders above it decided, and
\* every oracle call for a folder or file below the top level comes after
\* a returned classify_folder call for each folder above it.
C23_ParentDecidedFirst ==
    /\ \A x \in Queued : \A d \in AncestorsOf(x) : Decided(d)
    /\ \A i \in DOMAIN debug_log :
          \A d \in AncestorsOf(debug_log[i].path) :
              \E j \in 1..(i - 1) :
                  /\ debug_log[j].call_type = "folder_classification"
                  /\ debug_log[j].path = d
                  /\ ~debug_log[j].error

\* A finished run in which a file two folders deep was classified by
\* itself, as the third call, after the calls of both folders above it.
C23_Witness ==
    /\ pc = "done"
    /\ Len(debug_log) = 3
    /\ debug_log[3].call_type = "file_classification"
    /\ Len(debug_log[3].path) = 3
    /\ debug_log[1].path = SubSeq(debug_log[3].path, 1, 1)
    /\ debug_log[2].path = SubSeq(debug_log[3].path, 1, 2)

\* ---------------------------------------------------------------- C24
\* The folder description the oracle returned for folder d.
DescriptionReturnedFor(d) ==
    LET j == CHOOSE k \in CallsOf("folder_classification", d) : TRUE
    IN  debug_log[j].parsed.folder_description

RECURSIVE NonEmptyDescriptionsAbove(_, _)
\* The non-empty descriptions returned for the n outermost folders above
\* x, outermost first.
NonEmptyDescriptionsAbove(x, n) ==
    IF n = 0 THEN <<>>
    ELSE NonEmptyDescriptionsAbove(x, n - 1)
           \o (IF DescriptionReturnedFor(SubSeq(x, 1, n)) # <<>>
               THEN << DescriptionReturnedFor(SubSeq(x, 1, n)) >>
               ELSE <<>>)

\* The first 10 of them.
ExpectedAncestors(x) ==
    LET all == NonEmptyDescriptionsAbove(x, Len(x) - 1)
    IN  SubSeq(all, 1, IF Len(all) < 10 THEN Len(all) ELSE 10)

\* C24: the ancestor descriptions passed to the call of a folder or of an
\* individually classified file are, from the root down to the parent, the
\* non-empty folder descriptions the oracle returned for the folders above
\* the item, cut off after the first 10; all those folders were descended;
\* top-level folders and root-level files get the empty list.
C24_AncestorsAreDescriptionsAbove ==
    \A i \in DOMAIN debug_log :
        LET x == debug_log[i].path
        IN  /\ debug_log[i].ancestor_descriptions = ExpectedAncestors(x)
            /\ Len(x) = 1 => debug_log[i].ancestor_descriptions = <<>>
            /\ \A d \in AncestorsOf(x) :
                  \E j \in CallsOf("folder_classification", d) :
                      ~debug_log[j].error /\ IsDescent(debug_log[j].parsed)

\* The file below the long chain was classified with exactly 10 ancestor
\* descriptions although all 11 folders above it returned one, and the
\* innermost folder's description is the one left out.
C24_Witness ==
    /\ pc = "done"
    /\ \E i \in DOMAIN debug_log :
          /\ debug_log[i].call_type = "file_classification"
          /\ debug_log[i].path = DeepPath
          /\ Len(debug_log[i].ancestor_descriptions) = 10
          /\ Len(NonEmptyDescriptionsAbove(DeepPath, DeepFolders)) = 11
          /\ debug_log[i].ancestor_descriptions[1] = DescOf(<<"deep">>)

\* ---------------------------------------------------------------- C25
\* The ancestor list the call for path x was given.
AncestorsGivenTo(x) ==
    LET j == CHOOSE k \in DOMAIN debug_log : debug_log[k].path = x
    IN  debug_log[j].ancestor_descriptions

\* C25: every ancestor list in the registry, passed to the oracle or stored
\* in a Classification has at most 10 entries; the list of a called child
\* is its parent's list, or that list with exactly one description added
\* at the end; and when the parent's list has 10 entries the child's list
\* is the same list.
C25_AncestorListCapped ==
    /\ \A p \in DOMAIN ancestor_desc_map : Len(ancestor_desc_map[p]) <= 10
    /\ \A x \in DOMAIN classifications :
          Len(classifications[x].ancestor_descriptions) <= 10
    /\ \A i \in DOMAIN debug_log :
          LET x    == debug_log[i].path
              mine == debug_log[i].ancestor_descriptions
          IN  /\ Len(mine) <= 10
              /\ Len(x) > 1 =>
                   LET above == AncestorsGivenTo(Front(x))
                   IN  /\ \/ mine = above
                          \/ /\ Len(mine) = Len(above) + 1
                             /\ SubSeq(mine, 1, Len(above)) = above
                             /\ mine[Len(mine)] # <<>>
                       /\ Len(above) = 10 => mine = above

\* The innermost folder of the long chain was called with 10 ancestor
\* descriptions and returned a description of its own; the file below it
\* was then called with the same 10.
C25_Witness ==
    /\ \E i, j \in DOMAIN debug_log :
          /\ debug_log[i].path = Front(DeepPath)
          /\ Len(debug_log[i].ancestor_descriptions) = 10
          /\ ~debug_log[i].error
          /\ debug_log[i].parsed.folder_description # <<>>
          /\ debug_log[j].path = DeepPath
          /\ debug_log[j].ancestor_descriptions =
                 debug_log[i].ancestor_descriptions

\* ---------------------------------------------------------------- C26
\* The registry key under which a waiting item will look up its ancestor
\* list: its own path for a folder, its folder's path for a file.
ContextKey(item) ==
    IF item.kind = "file" THEN item.meta.folder_path ELSE root[item.node].path

\* C26: the ancestor context of a child is in the registry when the child
\* is on the queue (its parent's step wrote it before enqueuing the child);
\* no step changes the context of an item that is still waiting after the
\* step, so processing a folder never changes what a waiting sibling will
\* see; and no step changes the ancestor list of a Classification that
\* stays recorded.
C26_ContextFixedWhileWaiting ==
    [][ /\ \A i \in DOMAIN task_queue' :
             LET key == IF task_queue'[i].kind = "file"
                        THEN task_queue'[i].meta.folder_path
                        ELSE root'[task_queue'[i].node].path
             IN  key # RootPath => key \in DOMAIN ancestor_desc_map'
        /\ \A i \in DOMAIN task_queue :
             (\E j \in DOMAIN task_queue' : task_queue'[j] = task_queue[i]) =>
                 GetOr(ancestor_desc_map', ContextKey(task_queue[i]), <<>>) =
                     GetOr(ancestor_desc_map, ContextKey(task_queue[i]), <<>>)
        /\ \A x \in DOMAIN classifications :
             x \in DOMAIN classifications' =>
                 classifications'[x].ancestor_descriptions =
                     classifications[x].ancestor_descriptions ]_vars

\* A folder waits at the head of the queue with a non-empty ancestor list
\* written by its parent, after a sibling of that parent was descended with
\* a description of its own and recorded.
C26_Witness ==
    /\ pc = "loop"
    /\ task_queue # <<>>
    /\ Head(task_queue).kind = "folder"
    /\ GetOr(ancestor_desc_map, item_key(Head(task_queue)), <<>>) # <<>>
    /\ \E d \in InputFolders :
          /\ Len(d) = 1
          /\ ~Under(item_key(Head(task_queue)), d)
          /\ Decided(d)
          /\ IsDescent(folder_decisions[d])
          /\ folder_decisions[d].folder_description # <<>>
          /\ d \in DOMAIN classifications

\* ---------------------------------------------------------------- C27
\* The scanned top-level folders and root-level files.
TopLevelFolders == { d \in InputFolders : Len(d) = 1 }

RootLevelFiles == { f \in InputFiles : Len(f) = 1 }

\* C27: the seeding step fills the queue with exactly the root's immediate
\* child folders, each once, followed by the root's immediate files, each
\* once, and gives every top-level folder the empty ancestor list; and the
\* root folder itself is never passed to the oracle and never gets a
\* Classification.
C27_SeededWithRootChildren ==
    [][ /\ pc = "start" =>
             /\ Len(task_queue') = Cardinality(TopLevelFolders \cup RootLevelFiles)
             /\ { root'[task_queue'[i].node].path :
                    i \in { k \in DOMAIN task_queue' : task_queue'[k].kind = "folder" } }
                  = TopLevelFolders
             /\ { task_queue'[i].meta.source_path :
                    i \in { k \in DOMAIN task_queue' : task_queue'[k].kind = "file" } }
                  = RootLevelFiles
             /\ \A i, j \in DOMAIN task_queue' :
                   (task_queue'[i].kind = "folder" /\ task_queue'[j].kind = "file")
                       => i < j
             /\ DOMAIN ancestor_desc_map' = TopLevelFolders
             /\ \A d \in TopLevelFolders : ancestor_desc_map'[d] = <<>>
        /\ \A i \in DOMAIN debug_log' :
             debug_log'[i].path # RootPath /\ debug_log'[i].path # <<>>
        /\ RootPath \notin DOMAIN classifications'
        /\ RootPath \notin DOMAIN folder_decisions' ]_vars

\* Just after the seeding of a scan with a root-level file and a file in a
\* folder: the folder waits first, the file second, nothing is called yet.
C27_Witness ==
    /\ pc = "loop"
    /\ debug_log = <<>>
    /\ seen = {}
    /\ Len(task_queue) = 2
    /\ task_queue[1].kind = "folder"
    /\ task_queue[2].kind = "file"
    /\ files_on_disk[1] = task_queue[2].meta.source_path

\* ---------------------------------------------------------------- C28
\* C28: oracle calls never overlap.  Each step makes at most one call, the
\* call is for the item at the head of the queue, and when the call has
\* returned all its effects are in place in the state the step leaves,
\* before anything else is dequeued: a folder's decision and record, the
\* children of a descended folder on the queue with their registry
\* entries, the records and mappings of an assigned folder's files, the
\* record and mapping of a file that was not dropped.  Otherwise the run
\* has been aborted and nothing more is dequeued.
C28_OneCallAtATime ==
    [][ /\ Len(debug_log') <= Len(debug_log) + 1
        /\ debug_log' # debug_log =>
             LET call == debug_log'[Len(debug_log')]
                 x    == call.path
             IN  /\ pc = "loop"
                 /\ task_queue # <<>>
                 /\ x = item_key(Head(task_queue))
                 /\ SubSeq(debug_log', 1, Len(debug_log)) = debug_log
                 /\ \/ pc' = "aborted" /\ task_queue' = <<>>
                    \/ /\ ~call.error
                       /\ pc' = "loop"
                       /\ x \in seen'
                       /\ call.call_type = "folder_classification" =>
                            /\ x \in DOMAIN folder_decisions'
                            /\ folder_decisions'[x] = call.parsed
                            /\ x \in DOMAIN classifications'
                            /\ IsDescent(call.parsed) =>
                                 /\ x \in DOMAIN ancestor_desc_map'
                                 /\ \A y \in InputFiles \cup InputFolders :
                                       ChildOf(y, x) =>
                                           \E i \in DOMAIN task_queue' :
                                               y = IF task_queue'[i].kind = "file"
                                                   THEN task_queue'[i].meta.source_path
                                                   ELSE root'[task_queue'[i].node].path
                            /\ IsConfidentAssignment(call.parsed) =>
                                 \A f \in SubtreeFiles(x) :
                                     /\ f \in DOMAIN classifications'
                                     /\ f \in DOMAIN mappings'
                       /\ (call.call_type = "file_classification"
                           /\ call.parsed.category # "skip") =>
                            /\ x \in DOMAIN classifications'
                            /\ x \in DOMAIN mappings' ]_vars

\* Three calls were made one after the other, for a folder that was
\* descended, a folder that was assigned and a file, and the run finished.
C28_Witness ==
    /\ pc = "done"
    /\ Len(debug_log) = 3
    /\ \E d, e \in InputFolders :
          /\ Decided(d) /\ IsDescent(folder_decisions[d])
          /\ Decided(e) /\ IsConfidentAssignment(folder_decisions[e])
    /\ \E f \in InputFiles : CallsOf("file_classification", f) # {}

\* ---------------------------------------------------------------- C29
\* C29: when every oracle call returns, the traversal ends by running the
\* queue empty: the run is never over in any other way, a finished run has
\* an empty queue, and no more items are dequeued than the tree has nodes
\* (folders plus files).
C29_RunEndsByEmptyQueue ==
    /\ pc # "aborted"
    /\ pc = "done" => task_queue = <<>>
    /\ Cardinality(seen) <= Cardinality(InputFolders) + Len(files_on_disk)

\* ---------------------------------------------------------------- C30
\* The depth of an item: the number of segments of its path.
DepthOf(item) == Len(item_key(item))

\* C30: items are processed in breadth-first order: the depths of the
\* successive oracle calls never decrease, and no item still waiting in the
\* queue is shallower than an item that has already been classified.
C30_BreadthFirstOrder ==
    /\ \A i, j \in DOMAIN debug_log :
          i < j => Len(debug_log[i].path) <= Len(debug_log[j].path)
    /\ \A i \in DOMAIN debug_log : \A k \in DOMAIN task_queue :
          Len(debug_log[i].path) <= DepthOf(task_queue[k])

\* Three calls over two depths have been made, the last one deeper than the
\* first, and an item is still waiting.
C30_Witness ==
    /\ Len(debug_log) >= 3
    /\ Len(debug_log[1].path) < Len(debug_log[Len(debug_log)].path)
    /\ task_queue # <<>>
    /\ \E k \in DOMAIN task_queue :
          DepthOf(task_queue[k]) = Len(debug_log[Len(debug_log)].path)

\* ---------------------------------------------------------------- C31
\* The record of folder d is the folder's own, with the decision's category
\* and confidence, and carries the mark exactly when d was descended through.
FolderRecordMatchesDecision(d) ==
    LET rec == classifications[d]
        r   == folder_decisions[d]
    IN  /\ rec.path = d
        /\ rec.classified_at_level = "folder"
        /\ rec.parent_folder = None
        /\ rec.category = r.category
        /\ rec.confidence = r.confidence
        /\ IF IsDescent(r)
           THEN rec.reason = r.reason \o <<" [descended]">>
           ELSE rec.reason = r.reason

\* C31: every processed folder has exactly one Classification record, the
\* folders not processed have no folder record; the record is marked ' [descended]'
\* exactly when the folder was descended through (never for a confident
\* assignment or a confident skip); and once written the record is never
\* written again with another content while the run lasts.
C31_OneRecordPerProcessedFolder ==
    /\ [](Running =>
            \A d \in InputFolders :
               /\ Decided(d) => d \in DOMAIN classifications
               /\ ( /\ d \in DOMAIN classifications
                    /\ classifications[d].classified_at_level = "folder"
                    /\ classifications[d].parent_folder = None ) => Decided(d)
               /\ Decided(d) <=> d \in seen
               /\ Decided(d) => FolderRecordMatchesDecision(d))
    /\ [][ pc' = "loop" =>
             \A d \in InputFolders :
                d \in DOMAIN classifications =>
                   /\ d \in DOMAIN classifications'
                   /\ classifications'[d] = classifications[d] ]_vars

\* A descended folder, a confidently assigned one and a confidently skipped
\* one have their records side by side.
C31_Witness ==
    /\ Running
    /\ \E a, b, c \in InputFolders :
          /\ Decided(a) /\ IsDescent(folder_decisions[a]) /\ MarkedDescended(a)
          /\ Decided(b) /\ IsConfidentAssignment(folder_decisions[b])
          /\ b \in DOMAIN classifications /\ ~MarkedDescended(b)
          /\ Decided(c) /\ IsConfidentSkip(folder_decisions[c])
          /\ c \in DOMAIN classifications /\ ~MarkedDescended(c)

\* ---------------------------------------------------------------- C32
\* The record kept for p is a file's: written by _process_file, or inherited
\* from a confidently assigned folder.
IsFileLevelRecord(p) ==
    /\ p \in DOMAIN classifications
    /\ \/ classifications[p].classified_at_level = "file"
       \/ /\ classifications[p].classified_at_level = "folder"
          /\ classifications[p].parent_folder # None

\* C32: in every state of a run a path is a key of the mappings exactly
\* when the classifications hold a file-level record for it, and then the
\* mapping and the record have the same category; so when the run is over
\* the two counters of the result add up to the number of mappings.
C32_MappingsMatchFileRecords ==
    /\ Running =>
          \A p \in DOMAIN mappings \cup DOMAIN classifications :
             /\ p \in DOMAIN mappings <=> IsFileLevelRecord(p)
             /\ p \in DOMAIN mappings =>
                   mappings[p].category = classifications[p].category
    /\ pc = "done" =>
          result.files_classified_via_folder + result.files_classified_individually
             = Cardinality(DOMAIN mappings)

\* A finished run with a file mapped through its folder, a file mapped on
\* its own, and a folder record that is not a file's.
C32_Witness ==
    /\ pc = "done"
    /\ result.files_classified_via_folder >= 1
    /\ result.files_classified_individually >= 1
    /\ \E d \in DOMAIN classifications : ~IsFileLevelRecord(d)
    /\ Cardinality(DOMAIN mappings) = 2

\* ---------------------------------------------------------------- C33
\* C33: destination paths are collision-free: when a run is over no two
\* distinct source files have the same dest_rel in the mappings.
C33_DestinationsDistinct ==
    pc = "done" =>
       \A p, q \in DOMAIN mappings :
          p # q => mappings[p].dest_rel # mappings[q].dest_rel

\* ---------------------------------------------------------------- C34
\* The folder calls that returned, in the order they were made.
FolderCallsReturned ==
    SelectSeq(debug_log,
              LAMBDA e : e.call_type = "folder_classification" /\ ~e.error)

\* The paths of the folders decided Skip, in processing order.
SkipDecidedInOrder ==
    LET skips == SelectSeq(FolderCallsReturned,
                           LAMBDA e : e.parsed.category = "skip")
    IN  [i \in DOMAIN skips |-> skips[i].path]

\* C34: skipped_folders lists, each once and in processing order, exactly
\* the processed folders whose decision category was Skip, pruned or
\* descended alike, and no folder of another category.
C34_SkippedFoldersAreSkipDecisions ==
    Running =>
       /\ skipped_folders = SkipDecidedInOrder
       /\ \A i, j \in DOMAIN skipped_folders :
             i # j => skipped_folders[i] # skipped_folders[j]
       /\ \A d \in InputFolders :
             d \in Range(skipped_folders)
                <=> (Decided(d) /\ folder_decisions[d].category = "skip")

\* A Skip folder that was descended and one that was pruned are both
\* listed, and a folder decided otherwise is not.
C34_Witness ==
    /\ Running
    /\ Len(skipped_folders) = 2
    /\ \E a, b, c \in InputFolders :
          /\ a \in Range(skipped_folders) /\ IsDescent(folder_decisions[a])
          /\ b \in Range(skipped_folders) /\ IsConfidentSkip(folder_decisions[b])
          /\ Decided(c) /\ c \notin Range(skipped_folders)

\* ---------------------------------------------------------------- C35
\* The tree has been built.
TreeBuilt == pc # "start" /\ pc # "idle"

\* The nodes of the tree other than the root, by their chain of names.
NonRootNodes == DOMAIN root \ { <<>> }

\* The node's path is its parent's path, "/" and its own name.
PathExtendsParent(k) ==
    root[k].path = Append(root[Front(k)].path, root[k].name)

\* C35: in the tree returned by build_tree every non-root node's path is
\* its parent's path followed by "/" and its own name, at every depth,
\* the root's children included (the root's path is ".").
C35_PathIsParentPathAndName ==
    TreeBuilt => \A k \in NonRootNodes : PathExtendsParent(k)

\* C35, amended: a node below the top level has its parent's path followed
\* by "/" and its own name; a child of the root has its bare name as path,
\* without the root's ".".
C35_PathIsParentPathAndNameBelowTop ==
    TreeBuilt =>
       \A k \in NonRootNodes :
          /\ root[k].name = Last(k)
          /\ Front(k) \in DOMAIN root
          /\ Len(k) >= 2 => PathExtendsParent(k)
          /\ Len(k) = 1 => root[k].path = << root[k].name >>

\* A built tree with a folder below a top-level folder.
C35_Witness ==
    /\ TreeBuilt
    /\ root[<<>>].path = RootPath
    /\ \E k \in NonRootNodes : Len(k) = 2

\* ---------------------------------------------------------------- C36
\* How many times x occurs in the sequence s.
CountIn(s, x) == Cardinality({ i \in DOMAIN s : s[i] = x })

\* The source paths of a list of FileMeta.
SourcePaths(files) == [i \in DOMAIN files |-> files[i].source_path]

\* C36: build_tree makes exactly one node per distinct directory prefix of
\* the input paths (and the root), each listed once under its parent; each
\* file hangs on the node named by its directory; and the files collected
\* from the whole tree are the input paths, each as often as it was given.
C36_TreeHoldsEachPrefixAndFileOnce ==
    TreeBuilt =>
       /\ NonRootNodes = InputFolders
       /\ \A k \in DOMAIN root :
             /\ \A i, j \in DOMAIN root[k].children :
                   i # j => root[k].children[i] # root[k].children[j]
             /\ { Append(k, root[k].children[i]) : i \in DOMAIN root[k].children }
                   = { c \in NonRootNodes : Front(c) = k }
             /\ \A i \in DOMAIN root[k].files :
                   /\ Front(root[k].files[i].source_path) = k
                   /\ root[k].files[i].file_name = Last(root[k].files[i].source_path)
       /\ \A f \in InputFiles :
             CountIn(SourcePaths(root[Front(f)].files), f) = CountIn(files_on_disk, f)
       /\ LET all == SourcePaths(collect_all_files(root, <<>>))
          IN  /\ Len(all) = Len(files_on_disk)
              /\ \A f \in InputFiles : CountIn(all, f) = CountIn(files_on_disk, f)

\* Two files were inserted under one top-level folder at different depths:
\* the shared prefix was met twice.
C36_Witness ==
    /\ TreeBuilt
    /\ Len(files_on_disk) = 2
    /\ \E k \in NonRootNodes :
          /\ Len(k) = 1
          /\ root[k].files # <<>>
          /\ root[k].children # <<>>
          /\ root[Append(k, root[k].children[1])].files # <<>>

\* ---------------------------------------------------------------- C37
\* The scanned files of the subtree of node k.
FilesBelow(k) ==
    { i \in DOMAIN files_on_disk :
        /\ Len(files_on_disk[i]) > Len(k)
        /\ SubSeq(files_on_disk[i], 1, Len(k)) = k }

\* The distinct non-metadata extensions among the files of the subtree.
ContentExtensionsBelow(k) ==
    { extension_of(Last(files_on_disk[i])) : i \in FilesBelow(k) }
        \ { ".yaml", ".yml", ".json", ".md", ".txt", ".toml", ".ini" }

RECURSIVE SumOf(_)
SumOf(s) == IF s = <<>> THEN 0 ELSE Head(s) + SumOf(Tail(s))

\* C37: compute_folder_stats reports is_homogeneous exactly when the files
\* of the subtree have at most one distinct non-metadata extension (so
\* metadata files beside one kind of content do not spoil it, and a subtree
\* of metadata files alone is homogeneous), and total_file_count is
\* immediate_file_count plus the total_file_count of every child folder.
C37_HomogeneousAndTotals ==
    (pc = "idle" /\ probe.done) =>
       LET k    == probe.node
           kids == ChildChains(root, k)
       IN  /\ probe.value.is_homogeneous
                 <=> Cardinality(ContentExtensionsBelow(k)) <= 1
           /\ probe.value.total_file_count = Cardinality(FilesBelow(k))
           /\ probe.value.total_file_count
                 = probe.value.immediate_file_count
                    + SumOf([i \in DOMAIN kids |->
                               compute_folder_stats(root, kids[i]).total_file_count])

\* The statistics of a folder with files of its own and a child folder: one
\* kind of content beside a metadata file, reported homogeneous.
C37_Witness ==
    /\ pc = "idle" /\ probe.done
    /\ probe.node = <<"hw">>
    /\ probe.value.is_homogeneous
    /\ Cardinality(DOMAIN probe.value.extension_counts) >= 2
    /\ Cardinality(ContentExtensionsBelow(probe.node)) = 1
    /\ probe.value.immediate_file_count >= 1
    /\ probe.value.total_file_count > probe.value.immediate_file_count

\* ---------------------------------------------------------------- C38
\* C38: in bfs_v1 the step that decides a folder Skip, or with a confidence
\* below the threshold, or mixed, leaves every child folder and every
\* immediate file of that folder in the queue.
C38_V1DescendsOnSkipLowOrMixed ==
    [][ \A d \in InputFolders :
          ( /\ d \notin DOMAIN folder_decisions
            /\ d \in DOMAIN folder_decisions'
            /\ \/ folder_decisions'[d].category = "skip"
               \/ folder_decisions'[d].confidence < V1_DEFAULT_CONFIDENCE_THRESHOLD
               \/ folder_decisions'[d].is_mixed )
          => \A x \in InputFiles \cup InputFolders :
                ChildOf(x, d) =>
                   \E i \in DOMAIN task_queue' :
                      x = IF task_queue'[i].kind = "file"
                          THEN task_queue'[i].meta.source_path
                          ELSE root'[task_queue'[i].node].path ]_vars

====
